---- MODULE Spec2Model ----
(***************************************************************************)
(* A model of the DataForge population engine: the Populator's packet      *)
(* cache (paginate_table_packet / get_packet_page), its row-major fill     *)
(* loop (build_table_entries / is_valid) and the command server's session, *)
(* transaction and generation-job state (Runner).                          *)
(*                                                                         *)
(* Python lists are 0-based, TLA+ sequences 1-based: a Python index k is   *)
(* position k+1 here; the variables that hold indices (i, entry_index,     *)
(* row_idx, page) keep the Python value.                                   *)
(***************************************************************************)
EXTENDS Integers, Sequences, FiniteSets, TLC

VARIABLES
    \* ---- Populator packet cache (populator.py) ----
    cached_packets,   \* Populator._cached_packets; <<>> when absent or empty
    uuid_ctr,         \* number of uuid4() values drawn so far
    page_op,          \* the last cache operation: its arguments and its outcome
    \* ---- Populator fill loop (populator.py, build_table_entries) ----
    fill_pc,          \* "idle", "loop" (inside the row loop) or "done"
    table,            \* the table's metadata and the rows it holds in the database
    no_of_entries,    \* table_spec.no_of_entries
    ordered_columns,  \* the run list of accepted column specs (names)
    gen_fns,          \* the live generators, each named by the column it was made for
    entries,          \* context.entries: column name -> list of values
    filled,           \* context.filled: the columns written in the current row
    entry_index,      \* the row loop's index
    row_idx,          \* context.row_idx
    i,                \* index into gen_fns / ordered_columns
    tries,            \* candidates already pulled by the current for-loop
    errors,           \* the ErrorPackets collected
    job_cache,        \* context.cache: key -> cached values
    fill_packet,      \* the TablePacket build_packets returns
    check_errors,     \* build_packets' _errors: the ErrorPackets of the rejected specs
    \* ---- Runner: the database session and the generation job (runner.py) ----
    dbf,              \* Runner.dbf: session id, transaction, counter, registry
    generation_id,    \* Runner._generation_id; NoJob before the first job
    active_process,   \* Runner._active_process: "none", "alive" or "dead"
    child_pc,         \* where the generation child is: "run" or "put"
    job_spec,         \* the TableSpec body the child was started with
    result_queue,     \* Runner._result_queue
    progress,         \* Runner._progress, shared with the child
    job_ctr,          \* number of jobs started
    orphans,          \* live children Runner no longer holds a handle of
    server_pc,        \* "idle", or "poll" inside _handle_poll_gen_status
    poll_response,    \* the pending answer poll_gen_status has prepared
    resp,             \* the response to the last command
    \* ---- Runner.listen: the request loop (runner.py) ----
    listen_pc,        \* "loop", "ended" (returned) or "raised" (left by an exception)
    nread,            \* number of input lines read so far
    line,             \* the line read last
    printed,          \* number of lines printed so far
    listen_res,       \* listen's local `res`: the line printed last, or NoRes
    req_id,           \* listen's local `_id`: Unbound until first assigned
    \* ---- DatabaseFactory.sort_tables (factory.py) ----
    sort_pc,          \* "idle", "loop" (inside while True) or "sorted" (returned)
    inspector,        \* self.inspector: the table names and their foreign keys
    tables,           \* the argument of sort_tables
    graph,            \* the dependency graph: nodes, edges parent -> child, scores
    cycles,           \* the cycle nx.find_cycle returned last
    min_edge,         \* the edge removed last
    sorted_tables,    \* the list sort_tables returns
    \* ---- Populator._validate_and_sort_specs (populator.py) ----
    specs,            \* the argument: the column specs in input order
    sorted_specs,     \* the run order returned, each column named by its input place
    spec_errors,      \* the input places of the columns that got an ErrorPacket
    \* ---- DBFRegistry: the saved table specs (config.py) ----
    table_specs,      \* the rows of table_specs, each with its column_specs rows
    row_ctr,          \* the autoincrement id given last
    last_saved,       \* per key (db_id, name): the TableSpec save_specs stored last
    pref_op,          \* the last registry operation: its argument and its outcome
    \* ---- Runner._handle_get_db_tables (runner.py) ----
    tables_pc,        \* "idle", "join" (threads started) or "answered"
    schema,           \* the connected database: table name -> rows and parents
    t1,               \* the get_tables thread: "new", "running", "done" or "failed"
    t2,               \* the sort_tables thread, likewise
    table_info,       \* the handler's local dict both threads update
    tables_resp,      \* the response of get_db_tables
    \* ---- Runner._handle_run_sql_query (runner.py) ----
    sql_pc,           \* "idle", "check" (loop test), "sleep" or "answered"
    clock,            \* time.time(), in poll intervals
    sql_start,        \* the handler's local `start`
    worker,           \* the worker process: "none", "alive", "exited" or "terminated"
    sql_queue,        \* result_queue: the outputs put and not yet taken
    sql_put,          \* what the worker put, and at which poll interval
    sql_resp,         \* the response of run_sql_query
    \* ---- the saved passwords of two registries compared (config.py) ----
    creds,            \* saved credential id -> its password in each of the two
    cred_conn,        \* the credential the sessions are connected with, or NoDb
    cred_resp,        \* the last response of each of the two servers
    \* ---- generate_packets and the registry (subprocess.py) ----
    gen_pc,           \* the child: "idle", "run", "saved", "put"; "answered" once polled
    gen_spec,         \* the TableSpec build_packets returns (db_id = dbf.id)
    gen_before,       \* the rows of table_specs when the job started
    gen_queue,        \* the result queue: <<>>, a packet or an exception
    gen_poll          \* the status poll_gen_status answered last

pageVars == <<cached_packets, uuid_ctr, page_op>>

fillVars == <<fill_pc, table, no_of_entries, ordered_columns, gen_fns, entries,
              filled, entry_index, row_idx, i, tries, errors, job_cache, fill_packet,
              check_errors>>

jobVars == <<generation_id, active_process, child_pc, job_spec, result_queue,
             progress, job_ctr, orphans>>

serverVars == <<dbf, jobVars, server_pc, poll_response, resp>>

listenVars == <<listen_pc, nread, line, printed, listen_res, req_id>>

sortVars == <<sort_pc, inspector, tables, graph, cycles, min_edge, sorted_tables>>

orderVars == <<specs, sorted_specs, spec_errors>>

prefVars == <<table_specs, row_ctr, last_saved, pref_op>>

tablesVars == <<tables_pc, schema, t1, t2, table_info, tables_resp>>

sqlVars == <<sql_pc, clock, sql_start, worker, sql_queue, sql_put, sql_resp>>

credVars == <<creds, cred_conn, cred_resp>>

genVars == <<gen_pc, gen_spec, gen_before, gen_queue, gen_poll>>

moreVars == <<prefVars, tablesVars, sqlVars, credVars, genVars>>

extraVars == <<listenVars, sortVars, orderVars, moreVars>>

vars == <<pageVars, fillVars, serverVars, extraVars>>

\* ------------------------------------------------------------------ bounds
MaxEntries == 3       \* longest packet handed to paginate_table_packet
MaxPageSize == 2      \* largest page_size tried
MaxUuid == 2          \* uuid4() values paginate_table_packet may draw in one run
MaxConcat == 5        \* longest packet a page=None read may build
MaxRows == 2          \* largest no_of_entries of a generation
MaxJobRows == 2       \* largest no_of_entries of a job the server starts
MaxJobs == 2          \* jobs one server run may start
MaxPending == 3       \* inserts one transaction may hold
MaxDbRows == 3        \* rows the target database may come to hold
MaxLines == 3         \* input lines one run of listen may read
MaxSpecs == 3         \* column specs handed to _validate_and_sort_specs
MaxHint == 2          \* largest @order(N) hint of a python generator
MaxSaves == 2          \* successful save_specs calls
MaxFks == 3           \* (child, parent) pairs joined by foreign keys in one schema

\* ---------------------------------------------------------- program constants
RetryBudget == 10     \* for _ in range(10)

\* Python's None, for a page argument and for an absent packet.
NoPage == -9
RowVals == {1, 2}     \* the distinct rows a packet may carry

\* ------------------------------------------------------------------ helpers
RECURSIVE SeqsUpTo(_, _)
SeqsUpTo(S, n) ==
    IF n = 0 THEN {<<>>}
    ELSE LET shorter == SeqsUpTo(S, n - 1)
         IN shorter \cup {Append(s, x) : s \in {t \in shorter : Len(t) = n - 1}, x \in S}

Min(a, b) == IF a < b THEN a ELSE b

\* ------------------------------------------------------------ TablePacket
\* name, columns and errors are copied unchanged by every operation below and
\* are left out of the cache model.
TablePacket(id, rows, page, page_size, total_entries, total_pages) ==
    [id |-> id, entries |-> rows, page |-> page, page_size |-> page_size,
     total_entries |-> total_entries, total_pages |-> total_pages]

NoPacket == TablePacket(0, <<>>, 0, 0, 0, 0)

\* The uuid build_packets gives its packet: paginate_table_packet never copies
\* it, so one value stands for all of them; page ids are 1, 2, ...
BuildId == 0

\* The packet build_packets returns for the rows `rows`: one page, page 0.
BuiltPacket(id, rows, page_size) ==
    TablePacket(id, rows, 0, page_size, Len(rows), 1)

\* ------------------------------------------------- paginate_table_packet
\* The pages the list comprehension builds: page k-1 holds
\* packet.entries[(k-1)*page_size : k*page_size].
PagesOf(packet, id) ==
    LET page_size == packet.page_size
        total_entries == Len(packet.entries)
        total_pages == (total_entries + page_size - 1) \div page_size
    IN [k \in 1..total_pages |->
           TablePacket(id,
                       SubSeq(packet.entries, (k - 1) * page_size + 1,
                              Min(k * page_size, total_entries)),
                       k - 1, page_size, total_entries, total_pages)]

\* The cache after paginate_table_packet(packet): an empty packet returns
\* before the assignment to self._cached_packets.
paginate_cache(cache, packet, id) ==
    IF Len(packet.entries) = 0 THEN cache ELSE PagesOf(packet, id)

\* The packet paginate_table_packet(packet) returns.
\* (paginate_ret_whole: the packet returned unsliced under the new id.)
paginate_ret_whole(packet, id) == [packet EXCEPT !.id = id]
paginate_ret(packet, id) ==
    IF Len(packet.entries) = 0
    THEN TablePacket(id, <<>>, 0, packet.page_size, 0, 0)
    ELSE PagesOf(packet, id)[1]

\* ------------------------------------------------------- get_packet_page
RECURSIVE ConcatEntries(_)
ConcatEntries(pages) ==
    IF pages = <<>> THEN <<>>
    ELSE pages[1].entries \o ConcatEntries(Tail(pages))

\* self._cached_packets[page]: a negative page indexes the list from its end
\* (IndexError when it is before the first page).
page_index(cache, page) == IF page < 0 THEN Len(cache) + page + 1 ELSE page + 1

\* Whether get_packet_page(packet_id, page) returns (TRUE) or raises.
get_packet_page_ok(cache, packet_id, page) ==
    /\ cache # <<>>
    /\ ~(page # NoPage /\ page >= Len(cache))
    /\ page # NoPage => page_index(cache, page) \in DOMAIN cache
    /\ (IF page = NoPage THEN cache[1] ELSE cache[page_index(cache, page)]).id = packet_id

\* The packet it returns: with page=None the first cached page, its entries
\* overwritten by the concatenation of every page's entries.
get_packet_page_ret(cache, packet_id, page) ==
    IF page = NoPage
    THEN [cache[1] EXCEPT !.entries = ConcatEntries(cache)]
    ELSE cache[page_index(cache, page)]

\* The cache afterwards: `packet` is the cached object itself, so the
\* assignment packet.entries = entries is made to the cached first page.
get_packet_page_cache(cache, packet_id, page) ==
    IF get_packet_page_ok(cache, packet_id, page) /\ page = NoPage
    THEN [cache EXCEPT ![1] = get_packet_page_ret(cache, packet_id, page)]
    ELSE cache

\* ------------------------------------------------------- cache operations
PageOp(op, arg, id, page, ok, ret) ==
    [op |-> op, arg |-> arg, id |-> id, page |-> page, ok |-> ok, ret |-> ret]

PageInit ==
    /\ cached_packets = <<>>
    /\ uuid_ctr = 0
    /\ page_op = PageOp("none", NoPacket, 0, NoPage, TRUE, NoPacket)

\* paginate_table_packet on a packet as build_packets makes it. The packet's
\* own uuid (BuildId) is never read; the pages share a fresh one.
Paginate ==
    /\ uuid_ctr + 1 <= MaxUuid
    /\ \E rows \in SeqsUpTo(RowVals, MaxEntries), page_size \in 1..MaxPageSize :
         LET packet == BuiltPacket(BuildId, rows, page_size)
             id == uuid_ctr + 1
         IN /\ cached_packets' = paginate_cache(cached_packets, packet, id)
            /\ page_op' = PageOp("paginate", packet, id, NoPage, TRUE,
                                 paginate_ret(packet, id))
    /\ uuid_ctr' = uuid_ctr + 1

\* get_packet_page(packet_id, page) for any id drawn so far and any page
\* number, negative ones and None included.
GetPacketPage ==
    /\ \E packet_id \in 1..MaxUuid, page \in {NoPage} \cup ((0 - MaxEntries)..MaxEntries) :
         LET ok == get_packet_page_ok(cached_packets, packet_id, page)
         IN /\ page = NoPage => Len(ConcatEntries(cached_packets)) <= MaxConcat
            /\ cached_packets' = get_packet_page_cache(cached_packets, packet_id, page)
            /\ page_op' = PageOp("get", NoPacket, packet_id, page, ok,
                                 IF ok THEN get_packet_page_ret(cached_packets, packet_id, page)
                                 ELSE NoPacket)
    /\ UNCHANGED uuid_ctr

\* =================================================================== values
\* A Python value is a pair <<type, content>>: None, a str, or a raw driver
\* value of the column's SQL type (an int for an INT column). Values of
\* different types are different, as "1" != 1 is in Python.
NULL == <<"none", 0>>
Str(n) == <<"str", n>>
DbVal(type, n) == <<type, n>>
\* str(v) for a non-None value.
ToStr(v) == <<"str", v[2]>>

Range(seq) == {seq[k] : k \in DOMAIN seq}
RemoveAt(seq, k) == SubSeq(seq, 1, k - 1) \o SubSeq(seq, k + 1, Len(seq))

\* ============================================================ the fill loop
TableName == "t"
Columns == {"a", "b", "c"}
\* table_spec.columns, in spec order; the metadata lists the same columns.
SpecColumns == <<"a", "b", "c">>
\* What a stream may yield: every stream yields str values (str(val),
\* random.choice of str rows, or the generator string itself).
Candidates == {Str(1), Str(2)}

\* ---- the inputs: metadata, database content, run order
NoGroup == <<>>
GroupAB == <<"a", "b">>
GroupBC == <<"b", "c">>
GroupABC == <<"a", "b", "c">>
\* ColumnMetadata.multi_unique per column: the first group of
\* get_unique_columns' list that contains the column (get_table_metadata).
MultiUniqueChoices ==
    { [c \in Columns |-> NoGroup],
      [c \in Columns |-> IF c = "c" THEN NoGroup ELSE GroupAB],
      [c \in Columns |-> GroupABC],
      [c \in Columns |-> IF c = "c" THEN GroupBC ELSE GroupAB],
      [c \in Columns |-> IF c = "a" THEN GroupAB ELSE GroupBC] }
UniqueChoices == {{}} \cup {{c} : c \in Columns}
NullableChoices == {{}, Columns}
\* The rows already in the table, and the Python type the driver returns for
\* its columns.
ExistingRow == [a |-> 1, b |-> 2, c |-> 1]
DbChoices == {[rows |-> {}, type |-> "str"],
              [rows |-> {ExistingRow}, type |-> "str"],
              [rows |-> {ExistingRow}, type |-> "int"]}
\* ColumnMetadata.foreign_keys per column: the referenced <<table, column>>,
\* or NoRef. `foreign` holds the columns whose spec is of type foreign, and
\* `parent` the non-null values of column id of the other table, "p".
NoRef == <<>>
NoRefs == [c \in Columns |-> NoRef]
Tables ==
    { [unique |-> u, multi_unique |-> m, nullable |-> n, db |-> d.rows, dbtype |-> d.type,
       foreign |-> {}, foreign_keys |-> NoRefs, parent |-> {}] :
        u \in UniqueChoices, m \in MultiUniqueChoices, n \in NullableChoices, d \in DbChoices }
NoTable == [unique |-> {}, multi_unique |-> [c \in Columns |-> NoGroup], nullable |-> {},
            db |-> {}, dbtype |-> "str",
            foreign |-> {}, foreign_keys |-> NoRefs, parent |-> {}]
\* Tables whose column a is generated as a foreign key: without reference, to
\* p.id, or to column b of the table itself.
ForeignTables ==
    { [unique |-> u, multi_unique |-> [c \in Columns |-> NoGroup], nullable |-> n,
       db |-> d.rows, dbtype |-> d.type,
       foreign |-> {"a"}, foreign_keys |-> [NoRefs EXCEPT !["a"] = ref], parent |-> ids] :
        u \in {{}, {"a"}, {"b"}}, n \in NullableChoices, d \in DbChoices,
        ref \in {NoRef, <<"p", "id">>, <<TableName, "b">>},
        ids \in {{}, {1}, {1, 2}} }

\* The run lists _validate_and_sort_specs may hand over: any accepted subset of
\* the columns in any order (python columns are reordered by their hints).
RunOrders ==
    {s \in SeqsUpTo(Columns, Cardinality(Columns)) : Cardinality(Range(s)) = Len(s)}

\* ---- DatabaseFactory.get_existing_values, fetch_existing_values
get_existing_values(table_name, column) ==
    IF table_name = TableName
    THEN {DbVal(table.dbtype, r[column]) : r \in table.db}
    ELSE {DbVal(table.dbtype, v) : v \in table.parent}

\* f"{table_name}.{column_name}"
Key(column) == <<TableName, column>>

\* What the cache holds under a key: a set of raw values (fetch_existing_values)
\* or a list of str (make_foreign).
Cached(vals, list) == [vals |-> vals, list |-> list]

\* The cache after fetch_existing_values(context, key): a missing key is filled
\* with the existing values of context.col_spec.name, the column being filled.
fetch_existing_values(cache, key, col_spec) ==
    IF key \in DOMAIN cache THEN cache
    ELSE cache @@ (key :> Cached(get_existing_values(TableName, col_spec), FALSE))

\* ---- is_valid
sibling_columns(column_name) ==
    LET mu == table.multi_unique[column_name]
    IN IF column_name \in Range(mu) THEN mu ELSE Append(mu, column_name)

RowTuple(sibs, k, column_name, value, use_value) ==
    [j \in DOMAIN sibs |->
        IF use_value /\ sibs[j] = column_name THEN value ELSE entries[sibs[j]][k]]

\* "Check each part of the tuple in DB": in sibling order, returning at the
\* first hit; each fetch may add a key to the cache.
RECURSIVE db_part_check(_, _, _, _)
db_part_check(cache, sibs, current_row, col_spec) ==
    IF sibs = <<>> THEN [ok |-> TRUE, cache |-> cache]
    ELSE LET seen_key == Key(Head(sibs))
             cache1 == fetch_existing_values(cache, seen_key, col_spec)
         IN IF Head(current_row) \in cache1[seen_key].vals
            THEN [ok |-> FALSE, cache |-> cache1]
            ELSE db_part_check(cache1, Tail(sibs), Tail(current_row), col_spec)

multi_unique_check(cache, column_name, value) ==
    LET sibs == sibling_columns(column_name)
        current_row == RowTuple(sibs, row_idx + 1, column_name, value, TRUE)
    IN IF \E j \in DOMAIN sibs : sibs[j] # column_name /\ sibs[j] \notin filled
       THEN [ok |-> TRUE, cache |-> cache]
       ELSE IF \E j \in DOMAIN current_row : current_row[j] = NULL
       THEN [ok |-> TRUE, cache |-> cache]
       ELSE IF \E k \in 1..row_idx :
                 LET prev_row == RowTuple(sibs, k, column_name, value, FALSE)
                 IN /\ \A j \in DOMAIN prev_row : prev_row[j] # NULL
                    /\ prev_row = current_row
       THEN [ok |-> FALSE, cache |-> cache]
       ELSE db_part_check(cache, sibs, current_row, column_name)

\* is_valid(context, value) for the column being filled: its answer and the
\* job cache it leaves behind.
is_valid(cache, column_name, value) ==
    LET check_unique == column_name \in table.unique /\ value # NULL
        cache1 == IF check_unique
                  THEN fetch_existing_values(cache, Key(column_name), column_name)
                  ELSE cache
    IN IF check_unique /\ value \in cache1[Key(column_name)].vals
       THEN [ok |-> FALSE, cache |-> cache1]
       ELSE IF check_unique /\ \E k \in 1..row_idx : entries[column_name][k] = value
       THEN [ok |-> FALSE, cache |-> cache1]
       ELSE IF table.multi_unique[column_name] # NoGroup /\ value # NULL
       THEN multi_unique_check(cache1, column_name, value)
       ELSE [ok |-> TRUE, cache |-> cache1]

\* ---- ErrorPacket, TablePacket of a generation
\* msg is "no valid value" for the message of the exhausted retry budget
\* ("Generated values for ... couldn't meet UNIQUE or MULTI-UNIQUE
\* constraints.") and "stream" for str(e) of what the stream raised.
ErrorPacket(column, type, msg) == [column |-> column, type |-> type, msg |-> msg]

\* rows = list(map(list, zip(*column_entries.values())))
Transpose(cols, column_entries) ==
    IF cols = <<>> THEN <<>>
    ELSE [k \in 1..Len(column_entries[cols[1]]) |->
             [j \in DOMAIN cols |-> column_entries[cols[j]][k]]]

GenPacket(column_entries, errs) ==
    [columns |-> SpecColumns, entries |-> Transpose(SpecColumns, column_entries),
     errors |-> errs, total_entries |-> Len(Transpose(SpecColumns, column_entries))]

NoGenPacket == [columns |-> <<>>, entries |-> <<>>, errors |-> <<>>, total_entries |-> 0]

FillInit ==
    /\ fill_pc = "idle"
    /\ table = NoTable
    /\ no_of_entries = 0
    /\ ordered_columns = <<>>
    /\ gen_fns = <<>>
    /\ entries = [c \in Columns |-> <<>>]
    /\ filled = {}
    /\ entry_index = 0
    /\ row_idx = 0
    /\ i = 0
    /\ tries = 0
    /\ errors = <<>>
    /\ job_cache = <<>>
    /\ fill_packet = NoGenPacket
    /\ check_errors = <<>>

\* _errors of _validate_and_sort_specs: one error ErrorPacket, in spec order,
\* for each column whose generator failed its check ("check" stands for the
\* message "Error '<name>' <exception>").
rejected_specs(rejected) ==
    LET names == SelectSeq(SpecColumns, LAMBDA c : c \in rejected)
    IN [k \in 1..Len(names) |-> ErrorPacket(names[k], "error", "check")]

\* build_packets up to the row loop of build_table_entries, for any table, row
\* count, run list and set of rejected specs. With an empty run list
\* build_table_entries returns one NULL per metadata column.
BeginFillOf(tbls) ==
    /\ fill_pc = "idle"
    /\ \E tbl \in tbls, n \in 0..MaxRows, columns \in RunOrders :
         /\ table' = tbl
         /\ \E rejected \in SUBSET (Columns \ Range(columns)) :
               check_errors' = rejected_specs(rejected)
         /\ no_of_entries' = n
         /\ ordered_columns' = columns
         /\ gen_fns' = columns
         /\ IF columns = <<>>
            THEN /\ entries' = [c \in Columns |-> <<NULL>>]
                 /\ fill_pc' = "done"
                 /\ fill_packet' = GenPacket([c \in Columns |-> <<NULL>>], check_errors')
            ELSE /\ entries' = [c \in Columns |-> [k \in 1..n |-> NULL]]
                 /\ fill_pc' = "loop"
                 /\ fill_packet' = fill_packet
    /\ filled' = {}
    /\ entry_index' = 0
    /\ row_idx' = 0
    /\ i' = 0
    /\ tries' = 0
    /\ errors' = <<>>
    /\ job_cache' = <<>>

BeginFill == BeginFillOf(Tables)

\* The same for a table with a column generated as a foreign key.
BeginForeign == BeginFillOf(ForeignTables)

InRow == fill_pc = "loop" /\ entry_index < no_of_entries /\ i < Len(gen_fns)

\* The except clause that catches an exception raised inside the while loop,
\* as the type of the ErrorPacket it appends: ValidationWarning has a clause
\* of its own, every other exception (ValidationError among them) falls to
\* `except Exception`.
caught_as(exception) == IF exception = "ValidationWarning" THEN "warning" ELSE "error"

\* raise ValidationWarning / ValidationError by the column's nullability
raised_for(col_spec) ==
    IF col_spec \in table.nullable THEN "ValidationWarning" ELSE "ValidationError"

DropColumn_stays(type, msg) ==
    /\ errors' = Append(errors, ErrorPacket(ordered_columns[i + 1], type, msg))
    /\ tries' = 0
    /\ UNCHANGED <<gen_fns, ordered_columns, entries, filled, i>>

\* (DropColumn_first: the generator popped at i, the column at the head.)
DropColumn_first(type, msg) ==
    /\ gen_fns' = RemoveAt(gen_fns, i + 1)
    /\ ordered_columns' = RemoveAt(ordered_columns, 1)
    /\ errors' = Append(errors, ErrorPacket(ordered_columns[i + 1], type, msg))
    /\ tries' = 0
    /\ UNCHANGED <<entries, filled, i>>

\* gen_fns.pop(i); ordered_columns.pop(i); errors.append(ErrorPacket(...))
DropColumn(type, msg) ==
    /\ gen_fns' = RemoveAt(gen_fns, i + 1)
    /\ ordered_columns' = RemoveAt(ordered_columns, i + 1)
    /\ errors' = Append(errors, ErrorPacket(ordered_columns[i + 1], type, msg))
    /\ tries' = 0
    /\ UNCHANGED <<entries, filled, i>>

\* ---- the streams
\* What next(gen) may do: the exceptions it may raise, the values it may
\* yield, and the cache it leaves behind.
Stream(raises, yields, cache) == [raises |-> raises, yields |-> yields, cache |-> cache]

make_foreign_any(cache, col_spec) == Stream({}, Candidates, cache)

\* make_foreign: the rows are read once into the cache, as str; without rows
\* it raises by the column's nullability; random.choice(rows) raises when
\* the cache holds a set under the key.
make_foreign(cache, col_spec) ==
    LET fk == table.foreign_keys[col_spec]
        cache1 == IF fk \in DOMAIN cache THEN cache
                  ELSE cache @@ (fk :> Cached({ToStr(v) : v \in get_existing_values(fk[1], fk[2])},
                                              TRUE))
    IN IF fk = NoRef THEN Stream({"Exception"}, {}, cache)
       ELSE IF cache1[fk].vals = {}
       THEN Stream({IF col_spec \in table.nullable THEN "ValidationWarning" ELSE "Exception"},
                   {}, cache1)
       ELSE IF ~cache1[fk].list THEN Stream({"Exception"}, {}, cache1)
       ELSE Stream({}, cache1[fk].vals, cache1)

\* next(gen) for the column at hand: any other stream yields some str, or
\* raises.
next_gen(col_spec) ==
    IF col_spec \in table.foreign
    THEN make_foreign(job_cache, col_spec)
    ELSE Stream({"Exception"}, Candidates, job_cache)

\* (Pull_unbounded: `while True` in place of `for _ in range(10)`.)
Pull_unbounded ==
    /\ InRow
    /\ \E value \in next_gen(ordered_columns[i + 1]).yields :
         LET col_spec == ordered_columns[i + 1]
             verdict == is_valid(next_gen(col_spec).cache, col_spec, value)
         IN /\ job_cache' = verdict.cache
            /\ IF verdict.ok
               THEN /\ entries' = [entries EXCEPT ![col_spec][entry_index + 1] = value]
                    /\ filled' = filled \cup {col_spec}
                    /\ i' = i + 1
                    /\ tries' = 0
                    /\ UNCHANGED <<gen_fns, ordered_columns, errors>>
               ELSE /\ tries' = tries + 1
                    /\ UNCHANGED <<gen_fns, ordered_columns, errors, entries, filled, i>>
    /\ UNCHANGED <<fill_pc, table, no_of_entries, entry_index, row_idx, fill_packet,
                   check_errors>>

\* One pass of `for _ in range(10)`: pull a candidate and test it. A valid one
\* is written and the loop moves to the next generator; the tenth invalid one
\* falls to the for-else, which raises and drops the column.
Pull ==
    /\ InRow
    /\ \E value \in next_gen(ordered_columns[i + 1]).yields :
         LET col_spec == ordered_columns[i + 1]
             verdict == is_valid(next_gen(col_spec).cache, col_spec, value)
         IN /\ job_cache' = verdict.cache
            /\ IF verdict.ok
               THEN /\ entries' = [entries EXCEPT ![col_spec][entry_index + 1] = value]
                    /\ filled' = filled \cup {col_spec}
                    /\ i' = i + 1
                    /\ tries' = 0
                    /\ UNCHANGED <<gen_fns, ordered_columns, errors>>
               ELSE IF tries + 1 < RetryBudget
               THEN /\ tries' = tries + 1
                    /\ UNCHANGED <<gen_fns, ordered_columns, errors, entries, filled, i>>
               ELSE DropColumn(caught_as(raised_for(col_spec)), "no valid value")
    /\ UNCHANGED <<fill_pc, table, no_of_entries, entry_index, row_idx, fill_packet,
                   check_errors>>

StreamRaises_fatal ==
    /\ InRow
    /\ fill_pc' = "failed"
    /\ UNCHANGED <<table, no_of_entries, ordered_columns, gen_fns, entries, filled,
                   entry_index, row_idx, i, tries, errors, job_cache, fill_packet,
                   check_errors>>

\* next(gen) raises: the column is dropped by the clause that catches the
\* exception.
StreamRaises ==
    /\ InRow
    /\ \E exception \in next_gen(ordered_columns[i + 1]).raises :
          DropColumn(caught_as(exception), "stream")
    /\ job_cache' = next_gen(ordered_columns[i + 1]).cache
    /\ UNCHANGED <<fill_pc, table, no_of_entries, entry_index, row_idx, fill_packet,
                   check_errors>>

\* The while loop ends for this row: context.row_idx += 1, and the next
\* iteration of the row loop resets i and context.filled.
RowEnd ==
    /\ fill_pc = "loop"
    /\ entry_index < no_of_entries
    /\ i >= Len(gen_fns)
    /\ row_idx' = row_idx + 1
    /\ entry_index' = entry_index + 1
    /\ i' = 0
    /\ filled' = {}
    /\ tries' = 0
    /\ UNCHANGED <<fill_pc, table, no_of_entries, ordered_columns, gen_fns, entries,
                   errors, job_cache, fill_packet, check_errors>>

\* The row loop is over: build_packets wraps the entries into a TablePacket.
FinishFill ==
    /\ fill_pc = "loop"
    /\ entry_index = no_of_entries
    /\ fill_pc' = "done"
    /\ fill_packet' = GenPacket(entries, errors \o check_errors)
    /\ UNCHANGED <<table, no_of_entries, ordered_columns, gen_fns, entries, filled,
                   entry_index, row_idx, i, tries, errors, job_cache, check_errors>>

ForeignNext ==
    \/ (BeginForeign /\ UNCHANGED <<pageVars, serverVars, extraVars>>)
    \/ (Pull /\ UNCHANGED <<pageVars, serverVars, extraVars>>)
    \/ (StreamRaises /\ UNCHANGED <<pageVars, serverVars, extraVars>>)
    \/ (RowEnd /\ UNCHANGED <<pageVars, serverVars, extraVars>>)
    \/ (FinishFill /\ UNCHANGED <<pageVars, serverVars, extraVars>>)

FillNext ==
    \/ (BeginFill /\ UNCHANGED <<pageVars, serverVars, extraVars>>)
    \/ (Pull /\ UNCHANGED <<pageVars, serverVars, extraVars>>)
    \/ (StreamRaises /\ UNCHANGED <<pageVars, serverVars, extraVars>>)
    \/ (RowEnd /\ UNCHANGED <<pageVars, serverVars, extraVars>>)
    \/ (FinishFill /\ UNCHANGED <<pageVars, serverVars, extraVars>>)

\* The tables whose stored row collides with what the streams yield, so that
\* a unique column runs out of values by the second row.
CollidingTables == {tbl \in Tables : tbl.db # {} /\ tbl.dbtype = "str"}

BeginColliding == BeginFillOf(CollidingTables)

CollidingNext ==
    \/ (BeginColliding /\ UNCHANGED <<pageVars, serverVars, extraVars>>)
    \/ (Pull /\ UNCHANGED <<pageVars, serverVars, extraVars>>)
    \/ (StreamRaises /\ UNCHANGED <<pageVars, serverVars, extraVars>>)
    \/ (RowEnd /\ UNCHANGED <<pageVars, serverVars, extraVars>>)
    \/ (FinishFill /\ UNCHANGED <<pageVars, serverVars, extraVars>>)

\* ======================================================= the command server
\* ---- the session (DatabaseFactory) and its registry (DBFRegistry)
\* A credential names one of these databases; once saved its id is the name.
Dbs == {1, 2}
NoDb == 0             \* DatabaseFactory.id is None: no database assigned
NoJob == 0            \* Runner has no _generation_id yet

\* DBFRegistry.reset_usage_stats(db_id): without a db_id every row goes.
\* (reset_usage_stats_kept: a reset that deletes nothing.)
reset_usage_stats_kept(usage, db_id) == usage
reset_usage_stats(usage, db_id) ==
    IF db_id = NoDb THEN [d \in Dbs |-> 0]
    ELSE [usage EXCEPT ![db_id] = 0]

\* DBFRegistry.save_usage_stat(stat): adds to the row of (db_id, table_name)
\* or creates it.
save_usage_stat(usage, db_id, new_rows) ==
    [usage EXCEPT ![db_id] = @ + new_rows]

DbfInit ==
    [id |-> NoDb, txn |-> FALSE, uncommitted |-> 0, tx_rows |-> 0, db_rows |-> 0,
     discarded |-> 0, saved |-> {}, usage |-> [d \in Dbs |-> 0]]

\* DatabaseFactory.insert_packet: the rows go into the active transaction,
\* which is begun if there is none; the counter and the ledger record them.
dbf_insert_packet(d, n) ==
    [d EXCEPT !.txn = TRUE, !.tx_rows = @ + n, !.uncommitted = @ + 1,
              !.usage = save_usage_stat(d.usage, d.id, n)]

\* DatabaseFactory.rollback: the pending rows are discarded (`discarded`
\* keeps how many the last rollback dropped).
dbf_rollback(d) ==
    [d EXCEPT !.txn = FALSE, !.tx_rows = 0, !.uncommitted = 0, !.discarded = d.tx_rows,
              !.usage = reset_usage_stats(d.usage, d.id)]

\* DatabaseFactory.commit: the pending rows become durable.
dbf_commit(d) ==
    [d EXCEPT !.txn = FALSE, !.db_rows = @ + d.tx_rows, !.tx_rows = 0,
              !.uncommitted = 0, !.usage = reset_usage_stats(d.usage, d.id)]

\* DatabaseFactory.disconnect: rolls back, resets the ledger, drops the id.
dbf_disconnect(d) == [dbf_rollback(d) EXCEPT !.id = NoDb]

\* DatabaseFactory.get_database_rows: per table the pending rows the ledger
\* holds for the session's database.
dbf_get_database_rows(d) == d.usage[d.id]

\* ---- responses
NoPayload == [kind |-> "none"]
Response(cmd, status, error, payload) ==
    [cmd |-> cmd, status |-> status, error |-> error, payload |-> payload]
Ok(cmd, payload) == Response(cmd, "ok", "", payload)
Err(cmd, error) == Response(cmd, "error", error, NoPayload)

NotConnected == "Request requires connection to a database."

\* @requires(connected=True): the session has an assigned database id.
connected(d) == d.id # NoDb

NoProgress == [status |-> "none", row |-> 0, total |-> 0, column |-> "None"]
NoSpec == [no_of_entries |-> 0, page_size |-> 1]
JobSpecs == [no_of_entries : 0..MaxJobRows, page_size : 1..MaxPageSize]

ServerInit ==
    /\ dbf = DbfInit
    /\ generation_id = NoJob
    /\ active_process = "none"
    /\ child_pc = "run"
    /\ job_spec = NoSpec
    /\ result_queue = <<>>
    /\ progress = NoProgress
    /\ job_ctr = 0
    /\ orphans = 0
    /\ server_pc = "idle"
    /\ poll_response = NoPayload
    /\ resp = Response("none", "ok", "", NoPayload)

Idle == server_pc = "idle"

\* ---- connection commands
\* The session after _handle_set_db_connect: disconnect, take the credential,
\* test it; on failure disconnect again, on success save it if it is new.
\* (set_db_connect_dbf_eager: the credential saved before it is tested.)
set_db_connect_dbf_eager(d, db, reachable) ==
    LET d1 == [dbf_disconnect(d) EXCEPT !.saved = @ \cup {db}]
    IN IF ~reachable THEN dbf_disconnect(d1) ELSE [d1 EXCEPT !.id = db]

set_db_connect_dbf(d, db, reachable) ==
    LET d1 == dbf_disconnect(d)
    IN IF ~reachable THEN dbf_disconnect(d1)
       ELSE [d1 EXCEPT !.id = db, !.saved = @ \cup {db}]

handle_set_db_connect ==
    /\ Idle
    /\ \E db \in Dbs, reachable \in BOOLEAN :
         /\ dbf' = set_db_connect_dbf(dbf, db, reachable)
         /\ resp' = IF reachable THEN Ok("set_db_connect", [kind |-> "db", id |-> db])
                    ELSE Err("set_db_connect", "connection failed")
    /\ UNCHANGED <<jobVars, server_pc, poll_response, pageVars>>

\* _handle_set_db_reconnect: disconnect first; only a saved credential is used.
set_db_reconnect_dbf(d, db, reachable) ==
    LET d1 == dbf_disconnect(d)
    IN IF db \in d1.saved /\ reachable THEN [d1 EXCEPT !.id = db] ELSE d1

handle_set_db_reconnect ==
    /\ Idle
    /\ \E db \in Dbs, reachable \in BOOLEAN :
         /\ dbf' = set_db_reconnect_dbf(dbf, db, reachable)
         /\ resp' = IF db \notin dbf.saved THEN Err("set_db_reconnect", "Unknown database.")
                    ELSE IF reachable THEN Ok("set_db_reconnect", [kind |-> "db", id |-> db])
                    ELSE Err("set_db_reconnect", "connection failed")
    /\ UNCHANGED <<jobVars, server_pc, poll_response, pageVars>>

\* _handle_set_pref_delete: disconnect, then delete the credential.
\* (set_pref_delete_dbf_connected: the credential deleted, the session kept.)
set_pref_delete_dbf_connected(d, db) ==
    [d EXCEPT !.saved = @ \ {db}]

set_pref_delete_dbf(d, db) ==
    [dbf_disconnect(d) EXCEPT !.saved = @ \ {db}]

handle_set_pref_delete ==
    /\ Idle
    /\ \E db \in Dbs :
         dbf' = set_pref_delete_dbf(dbf, db)
    /\ resp' = Ok("set_pref_delete", NoPayload)
    /\ UNCHANGED <<jobVars, server_pc, poll_response, pageVars>>

\* _handle_set_db_disconnect
\* (set_db_disconnect_dbf_keep: a disconnect that only drops the id.)
set_db_disconnect_dbf_keep(d) == [d EXCEPT !.id = NoDb]
set_db_disconnect_dbf(d) == dbf_disconnect(d)

handle_set_db_disconnect ==
    /\ Idle
    /\ dbf' = set_db_disconnect_dbf(dbf)
    /\ resp' = Ok("set_db_disconnect", NoPayload)
    /\ UNCHANGED <<jobVars, server_pc, poll_response, pageVars>>

\* _handle_get_db_last_connected: takes the most recently used saved
\* credential (any saved one here) without disconnecting first; a failed
\* connection test disconnects.
get_db_last_connected_dbf(d, last_connected, reachable) ==
    IF reachable THEN [d EXCEPT !.id = last_connected]
    ELSE dbf_disconnect([d EXCEPT !.id = last_connected])

handle_get_db_last_connected ==
    /\ Idle
    /\ IF dbf.saved = {}
       THEN /\ resp' = Ok("get_db_last_connected", NoPayload)
            /\ UNCHANGED dbf
       ELSE \E last_connected \in dbf.saved, reachable \in BOOLEAN :
              /\ dbf' = get_db_last_connected_dbf(dbf, last_connected, reachable)
              /\ resp' = IF reachable
                         THEN Ok("get_db_last_connected", [kind |-> "db", id |-> last_connected])
                         ELSE Err("get_db_last_connected", "Failed to connect to last connected database")
    /\ UNCHANGED <<jobVars, server_pc, poll_response, pageVars>>

\* ---- transaction commands
set_db_commit_dbf(d) == dbf_commit(d)

handle_set_db_commit ==
    /\ Idle
    /\ dbf' = set_db_commit_dbf(dbf)
    /\ resp' = Ok("set_db_commit", NoPayload)
    /\ UNCHANGED <<jobVars, server_pc, poll_response, pageVars>>

set_db_rollback_dbf(d) == dbf_rollback(d)

handle_set_db_rollback ==
    /\ Idle
    /\ dbf' = set_db_rollback_dbf(dbf)
    /\ resp' = Ok("set_db_rollback", NoPayload)
    /\ UNCHANGED <<jobVars, server_pc, poll_response, pageVars>>

\* The session after a successful _handle_set_db_insert of a packet of n rows.
\* (set_db_insert_dbf_uncounted: an insert the counter does not record.)
set_db_insert_dbf_uncounted(d, n) ==
    [dbf_insert_packet(d, n) EXCEPT !.uncommitted = d.uncommitted]
set_db_insert_dbf(d, n) == dbf_insert_packet(d, n)

\* _handle_set_db_insert: the full packet is read from the cache (page=None),
\* then inserted; either step may raise, and the handler answers with an error.
handle_set_db_insert ==
    /\ Idle
    /\ \E packet_id \in 1..MaxUuid, db_accepts \in BOOLEAN :
         LET found == get_packet_page_ok(cached_packets, packet_id, NoPage)
             packet == get_packet_page_ret(cached_packets, packet_id, NoPage)
             n == Len(packet.entries)
         IN /\ found => /\ Len(ConcatEntries(cached_packets)) <= MaxConcat
                        /\ dbf.uncommitted < MaxPending
                        /\ dbf.db_rows + dbf.tx_rows + n <= MaxDbRows
                        /\ connected(dbf) => dbf.usage[dbf.id] + n <= MaxDbRows
            /\ cached_packets' = get_packet_page_cache(cached_packets, packet_id, NoPage)
            /\ IF found /\ connected(dbf) /\ db_accepts
               THEN /\ dbf' = set_db_insert_dbf(dbf, n)
                    /\ resp' = Ok("set_db_insert",
                                  [kind |-> "insert",
                                   pending_writes |-> set_db_insert_dbf(dbf, n).uncommitted])
               ELSE /\ UNCHANGED dbf
                    /\ resp' = Err("set_db_insert", "Error inserting packet")
    /\ UNCHANGED <<jobVars, server_pc, poll_response, uuid_ctr, page_op>>

\* _handle_get_pref_rows
handle_get_pref_rows ==
    /\ Idle
    /\ resp' = IF connected(dbf)
               THEN Ok("get_pref_rows", [kind |-> "rows", new_rows |-> dbf_get_database_rows(dbf)])
               ELSE Err("get_pref_rows", "not connected")
    /\ UNCHANGED <<dbf, jobVars, server_pc, poll_response, pageVars>>

\* ---- generation job commands
StartProgress(body) ==
    [status |-> "starting", row |-> 0, total |-> body.no_of_entries, column |-> "None"]

JobAnswer(status, job_id, data, prog) ==
    [kind |-> "job", status |-> status, job_id |-> job_id, data |-> data, progress |-> prog]

\* hasattr(self, "_active_process") and self._active_process.is_alive()
\* (already_running_never: the test skipped.)
already_running_never(process) == FALSE
already_running(process) == process = "alive"

\* _handle_get_gen_packets. The new Process replaces the handle of the old
\* one; an old one still alive would run on unreferenced.
handle_get_gen_packets ==
    /\ Idle
    /\ \E body \in JobSpecs :
         IF ~connected(dbf)
         THEN /\ resp' = Err("get_gen_packets", NotConnected)
              /\ UNCHANGED jobVars
         ELSE IF already_running(active_process)
         THEN /\ resp' = Err("get_gen_packets", "Generation is already running.")
              /\ UNCHANGED jobVars
         ELSE /\ job_ctr < MaxJobs
              /\ job_ctr' = job_ctr + 1
              /\ generation_id' = job_ctr + 1
              /\ result_queue' = <<>>
              /\ progress' = StartProgress(body)
              /\ orphans' = orphans + (IF active_process = "alive" THEN 1 ELSE 0)
              /\ active_process' = "alive"
              /\ child_pc' = "run"
              /\ job_spec' = body
              /\ resp' = Ok("get_gen_packets",
                            JobAnswer("pending", job_ctr + 1, NoPacket, StartProgress(body)))
    /\ UNCHANGED <<dbf, server_pc, poll_response, pageVars>>

\* _handle_clear_gen_packets: terminate() and join() a live child.
\* (clear_process_left: the child left running.)
clear_process_left(process) == process
clear_process(process) == IF already_running(process) THEN "dead" ELSE process

handle_clear_gen_packets ==
    /\ Idle
    /\ active_process' = clear_process(active_process)
    /\ resp' = Ok("clear_gen_packets", NoPayload)
    /\ UNCHANGED <<dbf, generation_id, child_pc, job_spec, result_queue, progress,
                   job_ctr, orphans, server_pc, poll_response, pageVars>>

IsException(res) == res.id = -1
ExceptionItem == TablePacket(-1, <<>>, 0, 0, 0, 0)

\* _handle_poll_gen_status up to the test of the queue: an unknown job is
\* refused; a queued result is taken, paginated and answered with; with an
\* empty queue the handler goes on to ask whether the child is alive.
handle_poll_gen_status ==
    /\ Idle
    /\ \E job_id \in 1..MaxJobs :
         IF generation_id = NoJob \/ job_id # generation_id
         THEN /\ resp' = Err("poll_gen_status", "Invalid job.")
              /\ UNCHANGED <<result_queue, server_pc, poll_response, pageVars>>
         ELSE IF result_queue = <<>>
         THEN /\ server_pc' = "poll"
              /\ poll_response' = JobAnswer("pending", generation_id, NoPacket, progress)
              /\ UNCHANGED <<resp, result_queue, pageVars>>
         ELSE LET res == Head(result_queue)
                  id == uuid_ctr + 1
              IN /\ result_queue' = Tail(result_queue)
                 /\ UNCHANGED <<server_pc, poll_response>>
                 /\ IF IsException(res)
                    THEN /\ resp' = Err("poll_gen_status", "Error during generation")
                         /\ UNCHANGED pageVars
                    ELSE /\ cached_packets' = paginate_cache(cached_packets, res, id)
                         /\ uuid_ctr' = id
                         /\ page_op' = PageOp("paginate", res, id, NoPage, TRUE,
                                              paginate_ret(res, id))
                         /\ resp' = Ok("poll_gen_status",
                                       JobAnswer("done", generation_id,
                                                 paginate_ret(res, id), progress))
    /\ UNCHANGED <<dbf, generation_id, active_process, child_pc, job_spec, progress,
                   job_ctr, orphans>>

\* ... and its answer when the queue was empty: pending while the child is
\* alive, an error otherwise.
poll_check_alive ==
    /\ server_pc = "poll"
    /\ server_pc' = "idle"
    /\ poll_response' = NoPayload
    /\ resp' = IF active_process = "alive"
               THEN Ok("poll_gen_status", poll_response)
               ELSE Err("poll_gen_status", "No result. Process may not have started or crashed.")
    /\ UNCHANGED <<dbf, jobVars, pageVars>>

\* ping, get_db_info, get_gen_methods, get_sql_banner, ...: an answer and
\* nothing else.
handle_read_only ==
    /\ Idle
    /\ resp' = Ok("ping", NoPayload)
    /\ UNCHANGED <<dbf, jobVars, server_pc, poll_response, pageVars>>

\* ---- the generation child (generate_packets in its own process)
ChildRunning == active_process = "alive" /\ child_pc = "run"

\* build_packets sets progress["status"] to "validating", then "building".
child_validating ==
    /\ ChildRunning
    /\ progress.status = "starting"
    /\ progress' = [progress EXCEPT !.status = "validating"]
    /\ UNCHANGED <<dbf, generation_id, active_process, child_pc, job_spec, result_queue,
                   job_ctr, orphans, server_pc, poll_response, resp, pageVars>>

child_building ==
    /\ ChildRunning
    /\ progress.status = "validating"
    /\ progress' = [progress EXCEPT !.status = "building"]
    /\ UNCHANGED <<dbf, generation_id, active_process, child_pc, job_spec, result_queue,
                   job_ctr, orphans, server_pc, poll_response, resp, pageVars>>

\* The row loop reports progress["row"] = entry_index and the column's name.
child_row ==
    /\ ChildRunning
    /\ progress.status = "building"
    /\ \/ progress.column = "None" /\ progress.row = 0 /\ job_spec.no_of_entries > 0
          /\ progress' = [progress EXCEPT !.column = "a"]
       \/ progress.column = "a" /\ progress.row + 1 < job_spec.no_of_entries
          /\ progress' = [progress EXCEPT !.row = @ + 1]
    /\ UNCHANGED <<dbf, generation_id, active_process, child_pc, job_spec, result_queue,
                   job_ctr, orphans, server_pc, poll_response, resp, pageVars>>

\* The rows of the packet build_packets returns: no_of_entries rows, or one
\* row of NULLs when no column was accepted.
JobRows(n) == [k \in 1..n |-> k]

\* build_table_entries returned (after the last row, or at once when no
\* column was accepted): build_packets sets progress["column"] to "".
child_built ==
    /\ ChildRunning
    /\ progress.status = "building"
    /\ \/ progress.column = "None"
       \/ progress.column = "a" /\ progress.row + 1 = job_spec.no_of_entries
    /\ progress' = [progress EXCEPT !.column = ""]
    /\ UNCHANGED <<dbf, generation_id, active_process, child_pc, job_spec, result_queue,
                   job_ctr, orphans, server_pc, poll_response, resp, pageVars>>

\* build_packets returned: the spec is saved and the packet is put on the queue.
child_put ==
    /\ ChildRunning
    /\ progress.status = "building"
    /\ progress.column = ""
    /\ \E n \in {job_spec.no_of_entries, 1} :
         result_queue' = Append(result_queue,
                                BuiltPacket(BuildId, JobRows(n), job_spec.page_size))
    /\ child_pc' = "put"
    /\ UNCHANGED <<dbf, generation_id, active_process, job_spec, progress, job_ctr,
                   orphans, server_pc, poll_response, resp, pageVars>>

\* Anything raised in the child is put on the queue instead.
child_raise ==
    /\ ChildRunning
    /\ result_queue' = Append(result_queue, ExceptionItem)
    /\ child_pc' = "put"
    /\ UNCHANGED <<dbf, generation_id, active_process, job_spec, progress, job_ctr,
                   orphans, server_pc, poll_response, resp, pageVars>>

\* The child process ends once its queue item is flushed.
child_exit ==
    /\ active_process = "alive"
    /\ child_pc = "put"
    /\ active_process' = "dead"
    /\ UNCHANGED <<dbf, generation_id, child_pc, job_spec, result_queue, progress,
                   job_ctr, orphans, server_pc, poll_response, resp, pageVars>>

\* A finished generation hands its packet to paginate_table_packet (the last
\* step of _handle_poll_gen_status), which caches its pages under a new id.
paginate_generated ==
    /\ Idle
    /\ uuid_ctr + 1 <= MaxUuid
    /\ \E body \in JobSpecs :
         LET res == BuiltPacket(BuildId, JobRows(body.no_of_entries), body.page_size)
             id == uuid_ctr + 1
         IN /\ cached_packets' = paginate_cache(cached_packets, res, id)
            /\ uuid_ctr' = id
            /\ page_op' = PageOp("paginate", res, id, NoPage, TRUE, paginate_ret(res, id))
    /\ UNCHANGED serverVars

\* The session commands; the packets they insert are the ones
\* paginate_table_packet has cached.
Next ==
    \/ (handle_set_db_connect /\ UNCHANGED <<fillVars, extraVars>>)
    \/ (handle_set_db_reconnect /\ UNCHANGED <<fillVars, extraVars>>)
    \/ (handle_set_pref_delete /\ UNCHANGED <<fillVars, extraVars>>)
    \/ (handle_set_db_disconnect /\ UNCHANGED <<fillVars, extraVars>>)
    \/ (handle_get_db_last_connected /\ UNCHANGED <<fillVars, extraVars>>)
    \/ (handle_set_db_commit /\ UNCHANGED <<fillVars, extraVars>>)
    \/ (handle_set_db_rollback /\ UNCHANGED <<fillVars, extraVars>>)
    \/ (handle_set_db_insert /\ UNCHANGED <<fillVars, extraVars>>)
    \/ (handle_get_pref_rows /\ UNCHANGED <<fillVars, extraVars>>)
    \/ (handle_read_only /\ UNCHANGED <<fillVars, extraVars>>)
    \/ (paginate_generated /\ UNCHANGED <<fillVars, extraVars>>)

\* The generation job: its commands, the child's steps, and the connection
\* a job needs.
JobNext ==
    \/ (handle_set_db_connect /\ UNCHANGED <<fillVars, extraVars>>)
    \/ (handle_set_db_disconnect /\ UNCHANGED <<fillVars, extraVars>>)
    \/ (handle_get_gen_packets /\ UNCHANGED <<fillVars, extraVars>>)
    \/ (handle_clear_gen_packets /\ UNCHANGED <<fillVars, extraVars>>)
    \/ (handle_poll_gen_status /\ UNCHANGED <<fillVars, extraVars>>)
    \/ (poll_check_alive /\ UNCHANGED <<fillVars, extraVars>>)
    \/ (handle_read_only /\ UNCHANGED <<fillVars, extraVars>>)
    \/ (child_validating /\ UNCHANGED <<fillVars, extraVars>>)
    \/ (child_building /\ UNCHANGED <<fillVars, extraVars>>)
    \/ (child_row /\ UNCHANGED <<fillVars, extraVars>>)
    \/ (child_built /\ UNCHANGED <<fillVars, extraVars>>)
    \/ (child_put /\ UNCHANGED <<fillVars, extraVars>>)
    \/ (child_raise /\ UNCHANGED <<fillVars, extraVars>>)
    \/ (child_exit /\ UNCHANGED <<fillVars, extraVars>>)

\* ========================================================== Runner.listen
\* ---- requests
NoId == 0             \* Request.id defaults to None
Unbound == -1         \* a local name no assignment has reached yet
RequestIds == {NoId, 1, 2}

\* The methods _handle_<kind> of Runner.
\* (Commands_open: a lookup that finds a handler for any name.)
Commands_open == {"bogus", "ping", "set_db_connect", "set_db_disconnect"}
Commands ==
    {"ping", "get_db_info", "get_gen_methods", "get_db_last_connected",
     "set_db_connect", "set_db_reconnect", "get_pref_connections", "set_pref_delete",
     "set_db_disconnect", "get_db_tables", "get_db_table", "get_gen_packets",
     "get_gen_packet", "clear_gen_packets", "poll_gen_status", "get_pref_spec",
     "get_sql_banner", "run_sql_query", "get_logs_read", "set_logs_clear",
     "set_db_insert", "set_db_export", "set_db_commit", "set_db_rollback",
     "get_pref_rows"}

Kinds == Commands \cup {"bogus"}

\* The keys each handler's @requires names, in the decorator's order (for
\* TableSpec: its required fields).
RequiredKeys(kind) ==
    CASE kind = "set_db_connect" -> <<"host", "user", "port", "name", "password", "dialect">>
      [] kind = "set_db_reconnect" -> <<"name", "host", "port", "user", "dialect">>
      [] kind = "set_pref_delete" -> <<"name", "host", "port", "user">>
      [] kind = "get_db_table" -> <<"name">>
      [] kind = "get_gen_packets" -> <<"name", "no_of_entries", "columns">>
      [] kind = "get_gen_packet" -> <<"page", "packet_id">>
      [] kind = "poll_gen_status" -> <<"job_id">>
      [] kind = "get_pref_spec" -> <<"table_name">>
      [] kind = "run_sql_query" -> <<"sql">>
      [] kind = "set_db_insert" -> <<"packet_id">>
      [] kind = "set_db_export" -> <<"path", "packet_id">>
      [] OTHER -> <<>>

\* The handlers decorated with connected=True.
NeedsConnection ==
    {"get_db_info", "get_db_tables", "get_db_table", "get_gen_packets",
     "get_gen_packet", "get_pref_spec"}

\* A request: its id, its kind and the keys its body holds (a body that is not
\* a dict holds none).
Request(id, kind, body) == [id |-> id, kind |-> kind, body |-> body]

\* The bodies tried for a kind: complete, one required key short, or empty.
Bodies(kind) ==
    LET keys == Range(RequiredKeys(kind))
    IN {keys} \cup {keys \ {k} : k \in keys} \cup {{}}

Requests ==
    UNION {{Request(id, kind, body) : id \in RequestIds, body \in Bodies(kind)}
           : kind \in Kinds}

\* ---- requires (helpers.py)
\* missing = [key for key in fields if key not in body]
RECURSIVE missing(_, _)
missing(fields, body) ==
    IF fields = <<>> THEN <<>>
    ELSE IF Head(fields) \in body THEN missing(Tail(fields), body)
    ELSE <<Head(fields)>> \o missing(Tail(fields), body)

\* ', '.join(names)
RECURSIVE join(_)
join(names) ==
    IF names = <<>> THEN ""
    ELSE IF Len(names) = 1 THEN names[1]
    ELSE names[1] \o ", " \o join(Tail(names))

\* (missing_msg_first: a message that names the first missing key only.)
missing_msg_first(m) == "Missing required parameter: " \o m[1]
missing_msg(m) ==
    IF Len(m) = 1 THEN "Missing required parameter: " \o m[1]
    ELSE "Missing required parameters: " \o join(SubSeq(m, 1, Len(m) - 1))
             \o ", and " \o m[Len(m)]

\* What the wrapper decides before the handler body: "connection" (rejected
\* for want of a connection), "missing" (rejected for missing keys) or "pass".
requires(kind, body, d) ==
    IF kind \in NeedsConnection /\ ~connected(d) THEN "connection"
    ELSE IF missing(RequiredKeys(kind), body) # <<>> THEN "missing"
    ELSE "pass"

\* ---- handle_command
Raised == "raised"    \* the text of an exception handle_command caught

\* A handler whose body only answers: ok, or an exception on the way.
handle_answer(kind) ==
    /\ Idle
    /\ \E ok \in BOOLEAN : resp' = IF ok THEN Ok(kind, NoPayload) ELSE Err(kind, Raised)
    /\ UNCHANGED <<dbf, jobVars, server_pc, poll_response, pageVars>>

\* _handle_get_gen_packet: get_packet_page(packet_id, page); what it raises
\* is caught by handle_command.
handle_get_gen_packet ==
    /\ Idle
    /\ GetPacketPage
    /\ resp' = IF page_op'.ok
               THEN Ok("get_gen_packet", [kind |-> "packet", data |-> page_op'.ret])
               ELSE Err("get_gen_packet", Raised)
    /\ UNCHANGED <<dbf, jobVars, server_pc, poll_response>>

\* The body of _handle_<kind>.
Body(kind) ==
    CASE kind = "ping" -> handle_read_only
      [] kind = "get_db_last_connected" -> handle_get_db_last_connected
      [] kind = "set_db_connect" -> handle_set_db_connect
      [] kind = "set_db_reconnect" -> handle_set_db_reconnect
      [] kind = "set_pref_delete" -> handle_set_pref_delete
      [] kind = "set_db_disconnect" -> handle_set_db_disconnect
      [] kind = "get_gen_packets" -> handle_get_gen_packets
      [] kind = "get_gen_packet" -> handle_get_gen_packet
      [] kind = "clear_gen_packets" -> handle_clear_gen_packets
      [] kind = "poll_gen_status" -> handle_poll_gen_status
      [] kind = "set_db_insert" -> handle_set_db_insert
      [] kind = "set_db_commit" -> handle_set_db_commit
      [] kind = "set_db_rollback" -> handle_set_db_rollback
      [] kind = "get_pref_rows" -> handle_get_pref_rows
      [] OTHER -> handle_answer(kind)

\* An answer made by _err alone: nothing but the response changes.
Reject(kind, error) ==
    /\ resp' = Err(kind, error)
    /\ UNCHANGED <<dbf, jobVars, server_pc, poll_response, pageVars>>

\* handle_command(command): the handler is looked up by name, its @requires
\* wrapper runs, then its body.
handle_command(command) ==
    IF command.kind \notin Commands
    THEN Reject(command.kind, "Unknown command: " \o command.kind)
    ELSE IF requires(command.kind, command.body, dbf) = "connection"
    THEN Reject(command.kind, NotConnected)
    ELSE IF requires(command.kind, command.body, dbf) = "missing"
    THEN Reject(command.kind, missing_msg(missing(RequiredKeys(command.kind), command.body)))
    ELSE Body(command.kind)

\* ---- listen
\* A printed line: the input line it was made for, the id it carries, status,
\* error text, and whether a traceback is set.
Printed(n, id, status, error, traceback) ==
    [line |-> n, id |-> id, status |-> status, error |-> error, traceback |-> traceback]

NoRes == Printed(0, NoId, "none", "", FALSE)

ExitLine(n) == Printed(n, NoId, "ok", "", FALSE)

Line(type, req) == [type |-> type, req |-> req]
NoReq == Request(NoId, "none", {})

ListenInit ==
    /\ listen_pc = "loop"
    /\ nread = 0
    /\ line = Line("none", NoReq)
    /\ printed = 0
    /\ listen_res = NoRes
    /\ req_id = Unbound

\* The loop reads the next line only between requests.
CanRead == listen_pc = "loop" /\ Idle /\ nread < MaxLines

\* A blank line: `continue`.
listen_blank ==
    /\ CanRead
    /\ nread' = nread + 1
    /\ line' = Line("blank", NoReq)
    /\ UNCHANGED <<listen_pc, printed, listen_res, req_id, serverVars, pageVars>>

\* 'exit': the ok response is printed and the loop is left.
listen_exit ==
    /\ CanRead
    /\ nread' = nread + 1
    /\ line' = Line("exit", NoReq)
    /\ listen_res' = ExitLine(nread + 1)
    /\ printed' = printed + 1
    /\ listen_pc' = "ended"
    /\ UNCHANGED <<req_id, serverVars, pageVars>>

\* End of input.
listen_eof ==
    /\ listen_pc = "loop"
    /\ Idle
    /\ line' = Line("eof", NoReq)
    /\ listen_pc' = "ended"
    /\ UNCHANGED <<nread, printed, listen_res, req_id, serverVars, pageVars>>

\* The ways a line fails before `_id = req.id`: json.loads raises, or
\* Request(**req) does (not an object, no kind, an id that is no string).
Malformed == {"not json", "not an object", "no kind", "bad id"}

\* Such a line: the except clause builds an error response and reads `_id`.
\* Unbound, that read raises; the finally clause then prints `res`, which
\* raises too when it is unbound, and listen is left by the exception.
listen_malformed ==
    /\ CanRead
    /\ nread' = nread + 1
    /\ \E m \in Malformed : line' = Line(m, NoReq)
    /\ IF req_id = Unbound
       THEN /\ listen_pc' = "raised"
            /\ printed' = IF listen_res = NoRes THEN printed ELSE printed + 1
            /\ UNCHANGED listen_res
       ELSE /\ listen_res' = Printed(nread + 1, req_id, "error", Raised, TRUE)
            /\ printed' = printed + 1
            /\ UNCHANGED listen_pc
    /\ UNCHANGED <<req_id, serverVars, pageVars>>

\* The line printed for the response `r` to the request read as line n.
Answer(n, id, r) == Printed(n, id, r.status, r.error, r.error = Raised)

\* A well-formed request: `_id = req.id`, handle_command, print.
listen_request ==
    /\ CanRead
    /\ nread' = nread + 1
    /\ \E req \in Requests :
         /\ line' = Line("request", req)
         /\ req_id' = req.id
         /\ handle_command(req)
         /\ IF server_pc' = "idle"
            THEN /\ listen_res' = Answer(nread + 1, req.id, resp')
                 /\ printed' = printed + 1
            ELSE UNCHANGED <<listen_res, printed>>
    /\ UNCHANGED listen_pc

\* The rest of a poll_gen_status that found the queue empty, and its print.
listen_poll_answer ==
    /\ listen_pc = "loop"
    /\ poll_check_alive
    /\ listen_res' = Answer(nread, req_id, resp')
    /\ printed' = printed + 1
    /\ UNCHANGED <<listen_pc, nread, line, req_id>>

ListenNext ==
    \/ (listen_blank /\ UNCHANGED <<fillVars, sortVars, orderVars, moreVars>>)
    \/ (listen_exit /\ UNCHANGED <<fillVars, sortVars, orderVars, moreVars>>)
    \/ (listen_eof /\ UNCHANGED <<fillVars, sortVars, orderVars, moreVars>>)
    \/ (listen_malformed /\ UNCHANGED <<fillVars, sortVars, orderVars, moreVars>>)
    \/ (listen_request /\ UNCHANGED <<fillVars, sortVars, orderVars, moreVars>>)
    \/ (listen_poll_answer /\ UNCHANGED <<fillVars, sortVars, orderVars, moreVars>>)

\* ================================================ DatabaseFactory.sort_tables
\* ---- the schema the inspector reports
TableNames == {"A", "B", "C"}

\* float("inf"), above every finite score
Inf == 3

Column(nullable, default) == [nullable |-> nullable, default |-> default]

\* The constrained columns of a child's foreign keys to one parent, in the
\* order score_edge meets them: one column of each kind, and two lists whose
\* first column has neither property.
FkColumns ==
    {<<Column(n, d)>> : n \in BOOLEAN, d \in BOOLEAN}
        \cup {<<Column(FALSE, FALSE), Column(TRUE, FALSE)>>}

NoFk == <<>>

\* inspector.get_foreign_keys: fks[<<child, parent>>] is NoFk when child has
\* no foreign key to parent.
Inspectors(most) ==
    UNION {
        {[names |-> TableNames,
          fks |-> [p \in TableNames \X TableNames |->
                      IF p \in P THEN f[p] ELSE NoFk]] :
            f \in [P -> FkColumns]}
        : P \in {Q \in SUBSET (TableNames \X TableNames) : Cardinality(Q) <= most}}

\* The argument of sort_tables: None, or a list of table names.
NoTables == [given |-> FALSE, names |-> {}]

TableArgs ==
    {NoTables} \cup {[given |-> TRUE, names |-> T] : T \in {{}, {"A"}, {"A", "B"}}}

\* tables or self.inspector.get_table_names()
tables_or_all(arg, insp) == IF arg.names = {} THEN insp.names ELSE arg.names

\* ---- score_edge
RECURSIVE first_score(_)
first_score(cols) ==
    IF cols = <<>> THEN Inf
    ELSE LET col == Head(cols)
         IN IF col.nullable /\ col.default THEN 0
            ELSE IF col.nullable THEN 1
            ELSE IF col.default THEN 2
            ELSE first_score(Tail(cols))

score_edge(insp, source, target) == first_score(insp.fks[<<target, source>>])

\* ---- get_dependency_graph, and the scores sort_tables attaches
get_dependency_graph(insp, T) ==
    LET E == {e \in T \X T : insp.fks[<<e[2], e[1]>>] # NoFk}
    IN [nodes |-> T,
        edges |-> E,
        score |-> [e \in E |-> score_edge(insp, e[1], e[2])]]

\* ---- nx.find_cycle: some simple cycle, as the list of its edges
Next1(k, n) == IF k = n THEN 1 ELSE k + 1

find_cycle(g) ==
    UNION {
        {[k \in 1..n |-> <<ns[k], ns[Next1(k, n)]>>] :
            ns \in {s \in [1..n -> g.nodes] :
                      /\ \A a, b \in 1..n : a # b => s[a] # s[b]
                      /\ \A k \in 1..n : <<s[k], s[Next1(k, n)]>> \in g.edges}}
        : n \in 1..Cardinality(g.nodes)}

max_score(g, cyc) ==
    cyc[CHOOSE k \in 1..Len(cyc) :
            /\ \A j \in 1..Len(cyc) : g.score[cyc[j]] <= g.score[cyc[k]]
            /\ \A j \in 1..Len(cyc) : j > k => g.score[cyc[j]] < g.score[cyc[k]]]

\* min(cycles, key=score): the first edge of the least score
min_score(g, cyc) ==
    cyc[CHOOSE k \in 1..Len(cyc) :
            /\ \A j \in 1..Len(cyc) : g.score[cyc[j]] >= g.score[cyc[k]]
            /\ \A j \in 1..Len(cyc) : j < k => g.score[cyc[j]] > g.score[cyc[k]]]

remove_edge(g, e) ==
    [nodes |-> g.nodes,
     edges |-> g.edges \ {e},
     score |-> [x \in g.edges \ {e} |-> g.score[x]]]

\* ---- nx.topological_sort: the orders of the nodes that respect every edge
topological_sort(g) ==
    LET n == Cardinality(g.nodes)
    IN {s \in [1..n -> g.nodes] :
          /\ \A a, b \in 1..n : a # b => s[a] # s[b]
          /\ \A a, b \in 1..n : <<s[a], s[b]>> \in g.edges => a < b}

SortInit ==
    /\ sort_pc = "idle"
    /\ inspector = [names |-> {}, fks |-> <<>>]
    /\ tables = NoTables
    /\ graph = [nodes |-> {}, edges |-> {}, score |-> <<>>]
    /\ cycles = <<>>
    /\ min_edge = <<>>
    /\ sorted_tables = <<>>

\* The call, up to the while loop: the graph is built and scored.
sort_start ==
    /\ sort_pc = "idle"
    /\ \E insp \in Inspectors(MaxFks), arg \in TableArgs :
          /\ inspector' = insp
          /\ tables' = arg
          /\ graph' = get_dependency_graph(insp, tables_or_all(arg, insp))
    /\ sort_pc' = "loop"
    /\ UNCHANGED <<cycles, min_edge, sorted_tables>>

\* One iteration of the while loop that finds a cycle.
sort_break ==
    /\ sort_pc = "loop"
    /\ \E cyc \in find_cycle(graph) :
          /\ cycles' = cyc
          /\ min_edge' = min_score(graph, cyc)
          /\ graph' = remove_edge(graph, min_score(graph, cyc))
    /\ UNCHANGED <<sort_pc, inspector, tables, sorted_tables>>

\* NetworkXNoCycle: the loop is left and the topological order returned.
sort_emit ==
    /\ sort_pc = "loop"
    /\ find_cycle(graph) = {}
    /\ \E order \in topological_sort(graph) : sorted_tables' = order
    /\ sort_pc' = "sorted"
    /\ UNCHANGED <<inspector, tables, graph, cycles, min_edge>>

SortNext ==
    \/ (sort_start /\ UNCHANGED <<pageVars, fillVars, serverVars, listenVars, orderVars, moreVars>>)
    \/ (sort_break /\ UNCHANGED <<pageVars, fillVars, serverVars, listenVars, orderVars, moreVars>>)
    \/ (sort_emit /\ UNCHANGED <<pageVars, fillVars, serverVars, listenVars, orderVars, moreVars>>)

\* ============================================ Populator._validate_and_sort_specs
\* A column spec: its type, whether its generator passes the check made for
\* that type, and for a python generator the N of its @order(N) decorator.
\* "null" stands for the types that are not checked (autoincrement, computed,
\* null) and for a spec without generator.
ColumnSpec(type, ok, order) == [type |-> type, ok |-> ok, order |-> order]

ColumnSpecs ==
    {ColumnSpec("python", TRUE, n) : n \in 1..MaxHint}
        \cup {ColumnSpec("python", FALSE, 0)}
        \cup {ColumnSpec("faker", ok, 0) : ok \in BOOLEAN}
        \cup {ColumnSpec("null", TRUE, 0)}

\* while order in result_python: order += 1
RECURSIVE free_order(_, _)
free_order(order, result_python) ==
    IF order \in DOMAIN result_python
    THEN free_order(order + 1, result_python)
    ELSE order

\* result_python[order] = c_spec
put(result_python, order, k) ==
    [o \in DOMAIN result_python \cup {order} |->
        IF o = order THEN k ELSE result_python[o]]

\* The for loop over specs, from place k on.
RECURSIVE sort_loop(_, _, _, _, _)
sort_loop(cs, k, result, result_python, errs) ==
    IF k > Len(cs)
    THEN [result |-> result, result_python |-> result_python, errors |-> errs]
    ELSE LET c_spec == cs[k]
         IN IF c_spec.type = "null"
            THEN sort_loop(cs, k + 1, result, result_python, errs)
            ELSE IF ~c_spec.ok
            THEN sort_loop(cs, k + 1, result, result_python, Append(errs, k))
            ELSE IF c_spec.type = "python"
            THEN sort_loop(cs, k + 1, result,
                           put(result_python,
                               free_order(c_spec.order, result_python), k),
                           errs)
            ELSE sort_loop(cs, k + 1, Append(result, k), result_python, errs)

\* [result_python[key] for key in sorted(result_python.keys())]
RECURSIVE by_key(_)
by_key(result_python) ==
    IF DOMAIN result_python = {} THEN <<>>
    ELSE LET key == CHOOSE o \in DOMAIN result_python :
                        \A q \in DOMAIN result_python : o <= q
         IN <<result_python[key]>>
              \o by_key([o \in DOMAIN result_python \ {key} |-> result_python[o]])

OrderInit ==
    /\ specs = <<>>
    /\ sorted_specs = <<>>
    /\ spec_errors = <<>>

validate_and_sort_specs ==
    /\ specs = <<>>
    /\ \E cs \in SeqsUpTo(ColumnSpecs, MaxSpecs) \ {<<>>} :
          LET r == sort_loop(cs, 1, <<>>, <<>>, <<>>)
          IN /\ specs' = cs
             /\ sorted_specs' = r.result \o by_key(r.result_python)
             /\ spec_errors' = r.errors

OrderNext ==
    validate_and_sort_specs
        /\ UNCHANGED <<pageVars, fillVars, serverVars, listenVars, sortVars, moreVars>>

\* ================================== DBFRegistry: the saved specs (config.py)
SpecNames == {"t", "u"}

\* TableSpec.page_size when none is given (types.py).
DefaultPageSize == 100
PageSizes == {50, DefaultPageSize}

\* GeneratorType | None of a ColumnSpec; ColumnSpecModel.type is NOT NULL.
NoType == "None"

ColumnSpecModel(name, generator, type) ==
    [name |-> name, generator |-> generator, type |-> type]

TableSpec(db_id, page_size, name, entries_wanted, columns) ==
    [db_id |-> db_id, page_size |-> page_size, name |-> name,
     no_of_entries |-> entries_wanted, columns |-> columns]

\* get_spec's None.
NoTableSpec == TableSpec(NoDb, 0, "None", 0, <<>>)

\* The column lists of the saved specs: two orders of the same columns, a
\* column without a type and a name used twice.
SavedColumns ==
    LET a == ColumnSpecModel("a", "name", "faker")
        b == ColumnSpecModel("b", "x + 1", "python")
    IN {<<a>>, <<a, b>>, <<b, a>>, <<a, a>>, <<ColumnSpecModel("a", "None", NoType)>>}

TableSpecs ==
    {TableSpec(d, p, n, e, c) :
        d \in Dbs, p \in PageSizes, n \in SpecNames, e \in 1..2, c \in SavedColumns}

SpecKeys == Dbs \X SpecNames

\* session.query(TableSpecModel).filter_by(db_id=..., name=...).first()
spec_rows(rows, db_id, name) == {r \in rows : r.db_id = db_id /\ r.name = name}

first_spec_row(rows, db_id, name) ==
    CHOOSE r \in spec_rows(rows, db_id, name) :
        \A q \in spec_rows(rows, db_id, name) : r.id <= q.id

\* TableSpecModel(db_id, name, no_of_entries, columns): the row save_specs
\* builds; page_size is not among the values it takes from the spec.
TableSpecModel(id, spec) ==
    [id |-> id, db_id |-> spec.db_id, name |-> spec.name,
     no_of_entries |-> spec.no_of_entries, columns |-> spec.columns]

\* The constraints of the two tables: uq_table_name_per_db,
\* uq_column_name_per_table and column_specs.type NOT NULL.
integrity(rows) ==
    /\ \A r \in rows : Cardinality(spec_rows(rows, r.db_id, r.name)) = 1
    /\ \A r \in rows :
          /\ \A k \in DOMAIN r.columns : r.columns[k].type # NoType
          /\ \A k, l \in DOMAIN r.columns : r.columns[k].name = r.columns[l].name => k = l

\* DBFRegistry.save_specs: delete the row of the key if there is one, merge
\* the new row, commit; a constraint violation leaves the tables as they were.
save_specs_rows(rows, id, spec) ==
    LET kept == IF spec_rows(rows, spec.db_id, spec.name) = {} THEN rows
                ELSE rows \ {first_spec_row(rows, spec.db_id, spec.name)}
        merged == kept \cup {TableSpecModel(id, spec)}
    IN IF integrity(merged) THEN merged ELSE rows

\* DBFRegistry.get_spec: TableSpec.model_validate(row), or None.
get_spec(rows, db_id, table_name) ==
    IF spec_rows(rows, db_id, table_name) = {} THEN NoTableSpec
    ELSE LET row == first_spec_row(rows, db_id, table_name)
         IN TableSpec(row.db_id, DefaultPageSize, row.name, row.no_of_entries,
                      row.columns)

PrefOp(op, db_id, name, ok, ret) ==
    [op |-> op, db_id |-> db_id, name |-> name, ok |-> ok, ret |-> ret]

PrefsInit ==
    /\ table_specs = {}
    /\ row_ctr = 0
    /\ last_saved = [key \in SpecKeys |-> NoTableSpec]
    /\ pref_op = PrefOp("none", NoDb, "None", TRUE, NoTableSpec)

\* generate_packets: dbf.registry.save_specs(specs) after build_packets.
save_specs ==
    /\ row_ctr < MaxSaves
    /\ \E spec \in TableSpecs :
         LET rows == save_specs_rows(table_specs, row_ctr + 1, spec)
             ok == rows # table_specs
         IN /\ table_specs' = rows
            /\ row_ctr' = IF ok THEN row_ctr + 1 ELSE row_ctr
            /\ last_saved' = IF ok THEN [last_saved EXCEPT ![<<spec.db_id, spec.name>>] = spec]
                             ELSE last_saved
            /\ pref_op' = PrefOp("save", spec.db_id, spec.name, ok, spec)

\* _handle_get_pref_spec (of a connected session whose id is db_id).
handle_get_pref_spec ==
    /\ \E db_id \in Dbs, table_name \in SpecNames :
         pref_op' = PrefOp("get", db_id, table_name, TRUE,
                           get_spec(table_specs, db_id, table_name))
    /\ UNCHANGED <<table_specs, row_ctr, last_saved>>

PrefsNext ==
    \/ (save_specs /\ UNCHANGED <<pageVars, fillVars, serverVars, listenVars,
                                  sortVars, orderVars, tablesVars, sqlVars, credVars, genVars>>)
    \/ (handle_get_pref_spec /\ UNCHANGED <<pageVars, fillVars, serverVars, listenVars,
                                            sortVars, orderVars, tablesVars, sqlVars, credVars, genVars>>)

\* ================================ Runner._handle_get_db_tables (runner.py)
\* The databases the session may be connected to: any tables, each with its
\* row count and its number of distinct parent tables.
Schemas ==
    UNION {[T -> [rows : 0..1, parents : 0..1]] : T \in SUBSET TableNames}

\* The orders a list of the tables of T can have.
Orders(T) ==
    {s \in [1..Cardinality(T) -> T] : \A k, l \in DOMAIN s : s[k] = s[l] => k = l}

\* table_info = {"table_data": {}, "sorted_tables": []}
NoTableInfo == [table_data |-> <<>>, sorted_tables |-> <<>>]

\* DatabaseFactory.get_tables: name -> {"parents": ..., "rows": ...}
get_tables(s) == s

\* The list the handler builds, or the KeyError its indexing raises.
table_list(info) ==
    IF \E k \in DOMAIN info.sorted_tables :
           info.sorted_tables[k] \notin DOMAIN info.table_data
    THEN Err("get_db_tables", "KeyError")
    ELSE Ok("get_db_tables",
            [kind |-> "tables",
             tables |-> [k \in DOMAIN info.sorted_tables |->
                           [name |-> info.sorted_tables[k],
                            rows |-> info.table_data[info.sorted_tables[k]].rows,
                            parents |-> info.table_data[info.sorted_tables[k]].parents]]])

TablesInit ==
    /\ tables_pc = "idle"
    /\ schema = <<>>
    /\ t1 = "new"
    /\ t2 = "new"
    /\ table_info = NoTableInfo
    /\ tables_resp = Response("none", "ok", "", NoPayload)

\* t1.start(); t2.start()
get_db_tables_start ==
    /\ tables_pc = "idle"
    /\ \E s \in Schemas : schema' = s
    /\ table_info' = NoTableInfo
    /\ t1' = "running"
    /\ t2' = "running"
    /\ tables_pc' = "join"
    /\ UNCHANGED tables_resp

\* t1: table_info.update(table_data=self.dbf.get_tables()); an exception ends
\* the thread and is not handed to the handler.
get_tables_thread ==
    /\ t1 = "running"
    /\ \/ /\ table_info' = [table_info EXCEPT !.table_data = get_tables(schema)]
          /\ t1' = "done"
       \/ /\ t1' = "failed"
          /\ UNCHANGED table_info
    /\ UNCHANGED <<tables_pc, schema, t2, tables_resp>>

\* t2: table_info.update(sorted_tables=self.dbf.sort_tables())
sort_tables_thread ==
    /\ t2 = "running"
    /\ \/ /\ \E order \in Orders(DOMAIN schema) :
                table_info' = [table_info EXCEPT !.sorted_tables = order]
          /\ t2' = "done"
       \/ /\ t2' = "failed"
          /\ UNCHANGED table_info
    /\ UNCHANGED <<tables_pc, schema, t1, tables_resp>>

\* t1.join(); t2.join(); then the list comprehension.
get_db_tables_answer ==
    /\ tables_pc = "join"
    /\ t1 # "running"
    /\ t2 # "running"
    /\ tables_resp' = table_list(table_info)
    /\ tables_pc' = "answered"
    /\ UNCHANGED <<schema, t1, t2, table_info>>

TablesNext ==
    \/ (get_db_tables_start /\ UNCHANGED <<pageVars, fillVars, serverVars, listenVars,
                                           sortVars, orderVars, prefVars, sqlVars, credVars, genVars>>)
    \/ (get_tables_thread /\ UNCHANGED <<pageVars, fillVars, serverVars, listenVars,
                                         sortVars, orderVars, prefVars, sqlVars, credVars, genVars>>)
    \/ (sort_tables_thread /\ UNCHANGED <<pageVars, fillVars, serverVars, listenVars,
                                          sortVars, orderVars, prefVars, sqlVars, credVars, genVars>>)
    \/ (get_db_tables_answer /\ UNCHANGED <<pageVars, fillVars, serverVars, listenVars,
                                            sortVars, orderVars, prefVars, sqlVars, credVars, genVars>>)

\* ================================ Runner._handle_run_sql_query (runner.py)
\* timeout = 10 (seconds); time.sleep(0.1): ten polls a second.  The clock
\* counts poll intervals.
Timeout == 10
PollsPerSecond == 10
Deadline == Timeout * PollsPerSecond

\* The clock is not followed further than this.
MaxClock == Deadline + 2

TimedOut == <<"ERROR 408 (HYT00): Query timed out after 10.00 sec">>

\* What run_sql_worker puts: the result lines, or the error line.  The table
\* of a large result set does not fit into the pipe under the queue.
LargeResult == <<"+----+", "100000 row(s) in set">>
Outputs == {<<"Query OK, 1 row(s) affected">>, <<"ERROR 8008 (4200): query">>, LargeResult}

\* result_queue.put(output) hands the output to the queue's feeder thread,
\* and the process ends only when the feeder has written all of it into the
\* pipe: an output larger than the pipe stays there until the parent reads.
fits_pipe(output) == output # LargeResult

Lines(lines) == Ok("run_sql_query", [kind |-> "lines", lines |-> lines])

\* p.is_alive(): a worker that has put its output is alive until it exits.
is_alive(w) == w \in {"alive", "put"}

\* while time.time() - start < timeout
\* (in_time_forever: a loop without the test.)
in_time_forever(now, start) == TRUE

in_time(now, start) == now - start < Deadline

SqlInit ==
    /\ sql_pc = "idle"
    /\ clock = 0
    /\ sql_start = 0
    /\ worker = "none"
    /\ sql_queue = <<>>
    /\ sql_put = <<>>
    /\ sql_resp = Response("none", "ok", "", NoPayload)

\* p.start(); start = time.time().  self.dbf.url raises for a session that
\* has no url, and the handler's except answers at once.
run_sql_start ==
    /\ sql_pc = "idle"
    /\ \E has_url \in BOOLEAN :
         IF has_url
         THEN /\ worker' = "alive"
              /\ sql_start' = clock
              /\ sql_pc' = "check"
              /\ UNCHANGED sql_resp
         ELSE /\ sql_resp' = Lines(<<"ERROR 8008 (4200): url">>)
              /\ sql_pc' = "answered"
              /\ UNCHANGED <<worker, sql_start>>
    /\ UNCHANGED <<clock, sql_queue, sql_put>>

\* run_sql_worker: finally: result_queue.put(output)
worker_put ==
    /\ worker = "alive"
    /\ \E output \in Outputs :
         /\ sql_queue' = Append(sql_queue, output)
         /\ sql_put' = <<[output |-> output, at |-> clock - sql_start]>>
    /\ worker' = "put"
    /\ UNCHANGED <<sql_pc, clock, sql_start, sql_resp>>

\* The worker process ends: after its put, once the output is in the pipe, or
\* killed before it.
worker_exit ==
    /\ is_alive(worker)
    /\ worker = "put" => fits_pipe(sql_put[1].output)
    /\ worker' = "exited"
    /\ UNCHANGED <<sql_pc, clock, sql_start, sql_queue, sql_put, sql_resp>>

\* One test of the loop: answer if the worker is gone, sleep if it is not,
\* and after the loop p.terminate() and the timeout line.
sql_check ==
    /\ sql_pc = "check"
    /\ IF in_time(clock, sql_start)
       THEN IF ~is_alive(worker)
            THEN /\ IF sql_queue # <<>>
                    THEN /\ sql_resp' = Lines(Head(sql_queue))
                         /\ sql_queue' = Tail(sql_queue)
                    ELSE /\ sql_resp' = Lines(<<"">>)
                         /\ UNCHANGED sql_queue
                 /\ sql_pc' = "answered"
                 /\ UNCHANGED worker
            ELSE /\ sql_pc' = "sleep"
                 /\ UNCHANGED <<worker, sql_queue, sql_resp>>
       ELSE /\ worker' = IF is_alive(worker) THEN "terminated" ELSE worker
            /\ sql_resp' = Lines(TimedOut)
            /\ sql_pc' = "answered"
            /\ UNCHANGED sql_queue
    /\ UNCHANGED <<clock, sql_start, sql_put>>

\* time.sleep(0.1)
sql_sleep ==
    /\ sql_pc = "sleep"
    /\ clock < MaxClock
    /\ clock' = clock + 1
    /\ sql_pc' = "check"
    /\ UNCHANGED <<sql_start, worker, sql_queue, sql_put, sql_resp>>

SqlNext ==
    \/ (run_sql_start /\ UNCHANGED <<pageVars, fillVars, serverVars, listenVars,
                                     sortVars, orderVars, prefVars, tablesVars, credVars, genVars>>)
    \/ (worker_put /\ UNCHANGED <<pageVars, fillVars, serverVars, listenVars,
                                  sortVars, orderVars, prefVars, tablesVars, credVars, genVars>>)
    \/ (worker_exit /\ UNCHANGED <<pageVars, fillVars, serverVars, listenVars,
                                   sortVars, orderVars, prefVars, tablesVars, credVars, genVars>>)
    \/ (sql_check /\ UNCHANGED <<pageVars, fillVars, serverVars, listenVars,
                                 sortVars, orderVars, prefVars, tablesVars, credVars, genVars>>)
    \/ (sql_sleep /\ UNCHANGED <<pageVars, fillVars, serverVars, listenVars,
                                 sortVars, orderVars, prefVars, tablesVars, credVars, genVars>>)

\* ======================= saved passwords and the responses (runner.py, config.py)
\* Two servers are run side by side on the same requests; they differ only in
\* the passwords their registries hold.  creds maps each saved credential to
\* the pair of its passwords, cred_resp is the pair of the last responses.
Passwords == {"p", "q"}

\* DbCredsSchema.model_dump(): the fields of the schema, password included.
model_dump(id, password) == [kind |-> "cred", id |-> id, password |-> password]

\* DatabaseFactory.to_dict(): id, host, user, port, name.
to_dict(id) == [kind |-> "db", id |-> id]

\* DBFRegistry.list_creds: the query names id, name, host, port, user and
\* dialect, so the schema built from a row has the default password "".
list_creds(c) == {model_dump(id, "") : id \in DOMAIN c}

\* DBFRegistry.last_connected / exists: DbCredsSchema.model_validate(row), the
\* row's password property among its attributes.
cred_schema(c, id, u) == model_dump(id, c[id][u])

Both(r) == <<r, r>>

CredsInit ==
    /\ creds = <<>>
    /\ cred_conn = NoDb
    /\ cred_resp = Both(Response("none", "ok", "", NoPayload))

\* DBFRegistry.save_cred: the states compared hold the credential with
\* password p1 in one registry and p2 in the other.
save_cred ==
    /\ \E db \in Dbs \ DOMAIN creds, p1 \in Passwords, p2 \in Passwords :
         creds' = creds @@ (db :> <<p1, p2>>)
    /\ UNCHANGED <<cred_conn, cred_resp>>

\* _handle_get_pref_connections
creds_get_pref_connections ==
    /\ cred_resp' = Both(Ok("get_pref_connections",
                            [kind |-> "creds", creds |-> list_creds(creds)]))
    /\ UNCHANGED <<creds, cred_conn>>

\* _handle_get_db_info (connected=True)
creds_get_db_info ==
    /\ cred_resp' = IF cred_conn = NoDb THEN Both(Err("get_db_info", NotConnected))
                    ELSE Both(Ok("get_db_info", to_dict(cred_conn)))
    /\ UNCHANGED <<creds, cred_conn>>

\* _handle_get_db_last_connected: self._ok(last_connected.model_dump())
creds_get_db_last_connected ==
    IF creds = <<>>
    THEN /\ cred_resp' = Both(Ok("get_db_last_connected", NoPayload))
         /\ UNCHANGED <<creds, cred_conn>>
    ELSE \E last_connected \in DOMAIN creds, reachable \in BOOLEAN :
           /\ cred_conn' = IF reachable THEN last_connected ELSE NoDb
           /\ cred_resp' =
                 IF reachable
                 THEN [u \in 1..2 |->
                         Ok("get_db_last_connected", cred_schema(creds, last_connected, u))]
                 ELSE Both(Err("get_db_last_connected",
                               "Failed to connect to last connected database"))
           /\ UNCHANGED creds

\* _handle_set_db_connect: self._ok(self.dbf.to_dict()); a credential that is
\* not saved is saved with the password of the request.
creds_set_db_connect ==
    /\ \E db \in Dbs, password \in Passwords, reachable \in BOOLEAN :
         /\ cred_conn' = IF reachable THEN db ELSE NoDb
         /\ creds' = IF reachable /\ db \notin DOMAIN creds
                     THEN creds @@ (db :> Both(password)) ELSE creds
         /\ cred_resp' = IF reachable THEN Both(Ok("set_db_connect", to_dict(db)))
                         ELSE Both(Err("set_db_connect", "connection failed"))

\* _handle_set_db_reconnect
creds_set_db_reconnect ==
    /\ \E db \in Dbs, reachable \in BOOLEAN :
         /\ cred_conn' = IF db \in DOMAIN creds /\ reachable THEN db ELSE NoDb
         /\ cred_resp' = IF db \notin DOMAIN creds
                         THEN Both(Err("set_db_reconnect", "Unknown database."))
                         ELSE IF reachable THEN Both(Ok("set_db_reconnect", to_dict(db)))
                         ELSE Both(Err("set_db_reconnect", "connection failed"))
    /\ UNCHANGED creds

CredsNext ==
    \/ (save_cred /\ UNCHANGED <<pageVars, fillVars, serverVars, listenVars, sortVars,
                                 orderVars, prefVars, tablesVars, sqlVars, genVars>>)
    \/ (creds_get_pref_connections
           /\ UNCHANGED <<pageVars, fillVars, serverVars, listenVars, sortVars,
                          orderVars, prefVars, tablesVars, sqlVars, genVars>>)
    \/ (creds_get_db_info
           /\ UNCHANGED <<pageVars, fillVars, serverVars, listenVars, sortVars,
                          orderVars, prefVars, tablesVars, sqlVars, genVars>>)
    \/ (creds_get_db_last_connected
           /\ UNCHANGED <<pageVars, fillVars, serverVars, listenVars, sortVars,
                          orderVars, prefVars, tablesVars, sqlVars, genVars>>)
    \/ (creds_set_db_connect
           /\ UNCHANGED <<pageVars, fillVars, serverVars, listenVars, sortVars,
                          orderVars, prefVars, tablesVars, sqlVars, genVars>>)
    \/ (creds_set_db_reconnect
           /\ UNCHANGED <<pageVars, fillVars, serverVars, listenVars, sortVars,
                          orderVars, prefVars, tablesVars, sqlVars, genVars>>)

\* ================== generate_packets and the saved spec (subprocess.py)
\* The generation child between build_packets and q.put, over the registry's
\* rows; poll_gen_status reads the queue and get_pref_spec the rows.
GenInit ==
    /\ gen_pc = "idle"
    /\ gen_spec = NoTableSpec
    /\ gen_before = {}
    /\ gen_queue = <<>>
    /\ gen_poll = "none"

\* _handle_get_gen_packets starts the child; build_packets sets
\* table_spec.db_id = dbf.id.
generate_start ==
    /\ gen_pc \in {"idle", "answered"}
    /\ row_ctr < MaxSaves
    /\ \E body \in TableSpecs : gen_spec' = body
    /\ gen_before' = table_specs
    /\ gen_queue' = <<>>
    /\ gen_poll' = "none"
    /\ gen_pc' = "run"
    /\ UNCHANGED prefVars

\* build_packets raises: except Exception as e: return q.put(e)
generate_raises ==
    /\ gen_pc = "run"
    /\ gen_queue' = <<"exception">>
    /\ gen_pc' = "put"
    /\ UNCHANGED <<prefVars, gen_spec, gen_before, gen_poll>>

\* dbf.registry.save_specs(specs); an IntegrityError of the commit is caught
\* by the same except clause.
generate_save ==
    /\ gen_pc = "run"
    /\ LET rows == save_specs_rows(table_specs, row_ctr + 1, gen_spec)
       IN IF rows # table_specs
          THEN /\ table_specs' = rows
               /\ row_ctr' = row_ctr + 1
               /\ gen_pc' = "saved"
               /\ UNCHANGED gen_queue
          ELSE /\ gen_queue' = <<"exception">>
               /\ gen_pc' = "put"
               /\ UNCHANGED <<table_specs, row_ctr>>
    /\ UNCHANGED <<last_saved, pref_op, gen_spec, gen_before, gen_poll>>

\* q.put(packet)
generate_put ==
    /\ gen_pc = "saved"
    /\ gen_queue' = <<"packet">>
    /\ gen_pc' = "put"
    /\ UNCHANGED <<prefVars, gen_spec, gen_before, gen_poll>>

\* _handle_poll_gen_status while the child runs or once it has put.
generate_poll ==
    /\ gen_pc \in {"run", "saved", "put"}
    /\ IF gen_queue = <<>>
       THEN /\ gen_poll' = "pending"
            /\ UNCHANGED <<gen_pc, gen_queue>>
       ELSE /\ gen_poll' = IF Head(gen_queue) = "exception" THEN "error" ELSE "done"
            /\ gen_queue' = Tail(gen_queue)
            /\ gen_pc' = "answered"
    /\ UNCHANGED <<prefVars, gen_spec, gen_before>>

GenNext ==
    \/ (generate_start /\ UNCHANGED <<pageVars, fillVars, serverVars, listenVars, sortVars,
                                      orderVars, tablesVars, sqlVars, credVars>>)
    \/ (generate_raises /\ UNCHANGED <<pageVars, fillVars, serverVars, listenVars, sortVars,
                                       orderVars, tablesVars, sqlVars, credVars>>)
    \/ (generate_save /\ UNCHANGED <<pageVars, fillVars, serverVars, listenVars, sortVars,
                                     orderVars, tablesVars, sqlVars, credVars>>)
    \/ (generate_put /\ UNCHANGED <<pageVars, fillVars, serverVars, listenVars, sortVars,
                                    orderVars, tablesVars, sqlVars, credVars>>)
    \/ (generate_poll /\ UNCHANGED <<pageVars, fillVars, serverVars, listenVars, sortVars,
                                     orderVars, tablesVars, sqlVars, credVars>>)

\* ============================================================ specifications
PageNext ==
    \/ (Paginate /\ UNCHANGED <<fillVars, serverVars, extraVars>>)
    \/ (GetPacketPage /\ UNCHANGED <<fillVars, serverVars, extraVars>>)

Init == PageInit /\ FillInit /\ ServerInit /\ ListenInit /\ SortInit
          /\ OrderInit /\ PrefsInit /\ TablesInit /\ SqlInit /\ CredsInit /\ GenInit

Spec == Init /\ [][Next]_vars

SpecJob == Init /\ [][JobNext]_vars

SpecListen == Init /\ [][ListenNext]_vars

SpecSort == Init /\ [][SortNext]_vars

SpecOrder == Init /\ [][OrderNext]_vars

SpecPage == Init /\ [][PageNext]_vars

SpecFill == Init /\ [][FillNext]_vars

SpecForeign == Init /\ [][ForeignNext]_vars

\* build_table_entries runs in one thread of the generation child: once
\* called, its loop keeps taking steps until it returns.
SpecFillFair == Init /\ [][CollidingNext]_vars /\ WF_vars(CollidingNext)

SpecPrefs == Init /\ [][PrefsNext]_vars

SpecTables == Init /\ [][TablesNext]_vars

SpecSql == Init /\ [][SqlNext]_vars

SpecCreds == Init /\ [][CredsNext]_vars

SpecGen == Init /\ [][GenNext]_vars

\* ==================================================================== claims
RECURSIVE SumLen(_)
SumLen(pages) ==
    IF pages = <<>> THEN 0 ELSE Len(pages[1].entries) + SumLen(Tail(pages))

PagesWithId(id) == SelectSeq(cached_packets, LAMBDA p : p.id = id)

\* C3: after any sequence of paginate_table_packet and get_packet_page calls
\* (page=None included), every cached page's total_entries equals the sum of
\* len(entries) over the cached pages that share its id.
C3_TotalEntriesIsSumOfPages ==
    \A k \in DOMAIN cached_packets :
        cached_packets[k].total_entries = SumLen(PagesWithId(cached_packets[k].id))

\* C4: right after paginate_table_packet(P), the cached pages of the returned
\* id, concatenated in page order, are exactly P.entries, and
\* get_packet_page(id, None) returns exactly P.entries.
C4_PaginateRoundTrip ==
    page_op.op = "paginate" =>
        /\ ConcatEntries(PagesWithId(page_op.id)) = page_op.arg.entries
        /\ get_packet_page_ok(cached_packets, page_op.id, NoPage)
        /\ get_packet_page_ret(cached_packets, page_op.id, NoPage).entries
               = page_op.arg.entries

\* ---- the packet a generation returns, against the table it was made for
ColIdx(c) == CHOOSE j \in DOMAIN fill_packet.columns : fill_packet.columns[j] = c
PacketRows == DOMAIN fill_packet.entries
\* The value row k of the packet carries for column c.
Cell(k, c) == fill_packet.entries[k][ColIdx(c)]
\* The tuple row k carries for the columns of group G, and whether it is free
\* of NULLs.
GroupTuple(k, G) == [j \in DOMAIN G |-> Cell(k, G[j])]
NullFree(t) == \A j \in DOMAIN t : t[j] # NULL
\* The composite unique groups of the table.
TableGroups == {table.multi_unique[c] : c \in Columns} \ {NoGroup}
\* A generated value equals a stored one when it is the stored value's text:
\* that is the value the INSERT writes into the column.
SameAsStored(value, r, c) == value = ToStr(DbVal(table.dbtype, r[c]))

\* C1: in every packet build_packets returns, the non-null values of a column
\* with unique=true are pairwise distinct and none equals a value the table
\* already holds in that column.
C1_UniqueColumnValues ==
    fill_pc = "done" =>
        \A c \in table.unique :
            /\ \A k1, k2 \in PacketRows :
                   (k1 # k2 /\ Cell(k1, c) # NULL) => Cell(k1, c) # Cell(k2, c)
            /\ \A k \in PacketRows, r \in table.db :
                   Cell(k, c) # NULL => ~SameAsStored(Cell(k, c), r, c)

\* C2: in every packet build_packets returns, for every composite unique group
\* G no two rows carry the same NULL-free tuple for G's columns and no row's
\* NULL-free tuple is a tuple the table already holds, whatever the fill order
\* and whichever columns were dropped on the way.
C2_MultiUniqueTuples ==
    fill_pc = "done" =>
        \A G \in TableGroups :
            /\ \A k1, k2 \in PacketRows :
                   (k1 # k2 /\ NullFree(GroupTuple(k1, G)))
                       => GroupTuple(k1, G) # GroupTuple(k2, G)
            /\ \A k \in PacketRows, r \in table.db :
                   NullFree(GroupTuple(k, G))
                       => \E j \in DOMAIN G : ~SameAsStored(Cell(k, G[j]), r, G[j])

\* ------------------------------------------------ the session's transaction
EndCmds == {"set_db_commit", "set_db_rollback"}

InsertOk(r) == r.cmd = "set_db_insert" /\ r.status = "ok"

\* C5: once set_db_commit or set_db_rollback has answered ok, whatever was
\* inserted before, the uncommitted counter is 0 and the usage ledger holds no
\* pending rows for the current db_id; a get_pref_rows that follows reports
\* new_rows = 0.
C5_CommitRollbackResetPending ==
    [][ /\ (resp'.cmd \in EndCmds /\ resp'.status = "ok") =>
              /\ dbf'.uncommitted = 0
              /\ connected(dbf') => dbf'.usage[dbf'.id] = 0
        /\ (resp.cmd \in EndCmds /\ resp'.cmd = "get_pref_rows" /\ resp'.status = "ok") =>
              resp'.payload.new_rows = 0
      ]_vars

\* A rollback that has just discarded inserted rows of a connected session.
C5_Witness ==
    /\ resp.cmd = "set_db_rollback"
    /\ resp.status = "ok"
    /\ connected(dbf)
    /\ dbf.discarded > 0

\* The counter moves by one on a successful insert and back to 0 on a command
\* of `resetting`, and on no other step.
CounterSteps(resetting) ==
    /\ (InsertOk(resp') /\ resp' # resp) =>
          /\ dbf'.uncommitted = dbf.uncommitted + 1
          /\ resp'.payload.pending_writes = dbf'.uncommitted
    /\ dbf'.uncommitted # dbf.uncommitted =>
          \/ InsertOk(resp') /\ dbf'.uncommitted = dbf.uncommitted + 1
          \/ resp'.cmd \in resetting /\ dbf'.uncommitted = 0

\* The commands whose handlers call DatabaseFactory.disconnect().
DisconnectingCmds ==
    {"set_db_disconnect", "set_db_connect", "set_db_reconnect", "set_pref_delete",
     "get_db_last_connected"}

\* C6 (as stated): every successful set_db_insert raises the uncommitted
\* counter by exactly one and returns it as pending_writes, and no command
\* other than commit, rollback or disconnect changes the counter.
C6_OnlyCommitRollbackDisconnect ==
    [][CounterSteps(EndCmds \cup {"set_db_disconnect"})]_vars

\* C6 (amended): every successful set_db_insert raises the uncommitted counter
\* by exactly one and returns it as pending_writes, so the k-th in a row
\* returns k; the only other changes are resets to 0, made by commit, rollback
\* and the commands that disconnect the session (set_db_disconnect,
\* set_db_connect, set_db_reconnect, set_pref_delete and a failing
\* get_db_last_connected).
C6_InsertCountsOne ==
    [][CounterSteps(EndCmds \cup DisconnectingCmds)]_vars

\* The third successful insert in a row.
C6_Witness ==
    /\ InsertOk(resp)
    /\ resp.payload.pending_writes = 3
    /\ dbf.uncommitted = 3

\* C7: set_db_disconnect implies rollback: after it the transaction is gone,
\* the rows inserted since the last commit are not persisted, the counter is
\* 0 and the ledger of the session's database is reset; a transaction comes to
\* exist only by a successful insert and none exists after a commit, rollback
\* or disconnect.
C7_DisconnectRollsBack ==
    [][ /\ resp'.cmd = "set_db_disconnect" =>
              /\ ~dbf'.txn
              /\ dbf'.tx_rows = 0
              /\ dbf'.db_rows = dbf.db_rows
              /\ dbf'.uncommitted = 0
              /\ connected(dbf) => dbf'.usage[dbf.id] = 0
              /\ ~connected(dbf')
        /\ (~dbf.txn /\ dbf'.txn) => InsertOk(resp')
        /\ resp'.cmd \in EndCmds \cup {"set_db_disconnect"} => ~dbf'.txn
        /\ dbf'.txn <=> dbf'.uncommitted > 0
      ]_vars

\* A disconnect that has just discarded inserted rows.
C7_Witness ==
    /\ resp.cmd = "set_db_disconnect"
    /\ dbf.discarded > 0
    /\ ~dbf.txn

\* ------------------------------------------------------ the generation job
AliveChildren == orphans + (IF active_process = "alive" THEN 1 ELSE 0)

C9_PollPendingThenDone ==
    [][ /\ (server_pc = "idle" /\ server_pc' = "poll") =>
              /\ result_queue = <<>>
              /\ poll_response' = JobAnswer("pending", generation_id, NoPacket, progress)
        /\ (server_pc = "poll" /\ server_pc' = "idle" /\ active_process = "alive") =>
              /\ resp' = Ok("poll_gen_status", poll_response)
              /\ resp'.payload.status = "pending"
              /\ resp'.payload.data = NoPacket
              /\ DOMAIN resp'.payload.progress = {"status", "row", "total", "column"}
        /\ (/\ result_queue # <<>>
            /\ result_queue' = Tail(result_queue)
            /\ job_ctr' = job_ctr
            /\ ~IsException(Head(result_queue))) =>
              LET res == Head(result_queue)
              IN /\ resp'.cmd = "poll_gen_status"
                 /\ resp'.status = "ok"
                 /\ resp'.payload.status = "done"
                 /\ resp'.payload.job_id = generation_id
                 /\ resp'.payload.data.page = 0
                 /\ resp'.payload.data.total_entries = Len(res.entries)
                 /\ resp'.payload.data.entries =
                        SubSeq(res.entries, 1, Min(res.page_size, Len(res.entries)))
      ]_vars

\* A poll answered done with the first of two pages.
C9_Witness ==
    /\ resp.cmd = "poll_gen_status"
    /\ resp.status = "ok"
    /\ resp.payload.status = "done"
    /\ resp.payload.data.total_pages = 2
    /\ Len(resp.payload.data.entries) = 1

ReadsLine == nread' = nread + 1

RequestLine(l) == l.type \in Malformed \cup {"request"}

\* C11: listen prints exactly one response for every non-blank line other
\* than 'exit', whatever the line holds, before it reads the next line; a
\* blank line prints nothing.
C11_OneResponsePerLine ==
    [][ /\ (ReadsLine /\ line'.type = "blank") => printed' = printed
        /\ (ReadsLine /\ RequestLine(line')) =>
              \/ printed' = printed + 1 /\ listen_res'.line = nread'
              \/ server_pc' = "poll" /\ printed' = printed
        /\ (server_pc = "poll" /\ server_pc' = "idle") =>
              printed' = printed + 1 /\ listen_res'.line = nread
        /\ ReadsLine => server_pc = "idle"
      ]_vars

\* C12: listen ends only on a line 'exit', after printing the ok response and
\* with no later line processed, or at the end of input; no request line
\* makes it end or raise.
C12_EndsOnlyOnExitOrEof ==
    /\ [](listen_pc # "raised")
    /\ [](listen_pc = "ended" =>
             /\ line.type \in {"exit", "eof"}
             /\ line.type = "exit" => listen_res = ExitLine(nread))
    /\ [][listen_pc = "ended" => (nread' = nread /\ printed' = printed)]_vars

\* C13: every response carries the id of the request it answers, and null
\* when the request has no id or could not be parsed; never an earlier
\* request's id.
C13_ResponseEchoesId ==
    [][ printed' = printed + 1 =>
          /\ line'.type = "request" => listen_res'.id = line'.req.id
          /\ line'.type \in Malformed => listen_res'.id = NoId
      ]_vars

\* The state a rejected request must leave alone: session and transaction,
\* job, packet cache.
Untouched == UNCHANGED <<dbf, jobVars, pageVars>>

\* C14: a request whose kind is no command is answered with status error and
\* 'Unknown command: <kind>', without a traceback, and changes nothing of the
\* session, the transaction, the job or the packet cache.
C14_UnknownCommand ==
    [][ (ReadsLine /\ line'.type = "request" /\ line'.req.kind = "bogus") =>
          /\ printed' = printed + 1
          /\ listen_res'.status = "error"
          /\ listen_res'.error = "Unknown command: bogus"
          /\ ~listen_res'.traceback
          /\ Untouched
      ]_vars

\* An unknown command answered on a connected session.
C14_Witness ==
    /\ line.type = "request"
    /\ listen_res.error = "Unknown command: bogus"
    /\ listen_res.line = nread
    /\ connected(dbf)

\* A request for a command, read now, whose body lacks a required key.
LacksKey ==
    /\ ReadsLine
    /\ line'.type = "request"
    /\ line'.req.kind \in Commands
    /\ missing(RequiredKeys(line'.req.kind), line'.req.body) # <<>>

\* The answer that names the missing keys, the handler body not run.
MissingAnswer ==
    /\ printed' = printed + 1
    /\ listen_res'.status = "error"
    /\ listen_res'.error = missing_msg(missing(RequiredKeys(line'.req.kind), line'.req.body))
    /\ line'.req = Request(line'.req.id, "set_db_connect", {}) =>
          listen_res'.error =
              "Missing required parameters: host, user, port, name, password, and dialect"
    /\ line'.req = Request(line'.req.id, "set_db_export", {}) =>
          listen_res'.error = "Missing required parameters: path, and packet_id"
    /\ line'.req = Request(line'.req.id, "set_db_reconnect", {"name", "host", "port", "user"}) =>
          listen_res'.error = "Missing required parameter: dialect"
    /\ ~listen_res'.traceback
    /\ Untouched

\* C15 (as stated): a request whose body lacks a key its command requires is
\* answered with status error and a message naming exactly the missing keys,
\* without a traceback, and the handler body is not run.
C15_MissingKeysNamed ==
    [][LacksKey => MissingAnswer]_vars

\* C15 (amended): ... unless the command is one decorated connected=True and
\* the session has no database id: the connection check comes first and the
\* answer is then 'Request requires connection to a database.'; in both cases
\* the handler body is not run.
C15_MissingKeysNamedWhenConnected ==
    [][ LacksKey =>
          IF line'.req.kind \in NeedsConnection /\ ~connected(dbf)
          THEN /\ listen_res'.error = NotConnected
               /\ ~listen_res'.traceback
               /\ Untouched
          ELSE MissingAnswer
      ]_vars

\* set_db_connect without any credential field, answered on a session that
\* is still connected.
C15_Witness ==
    /\ line.type = "request"
    /\ line.req.kind = "set_db_connect"
    /\ listen_res.line = nread
    /\ listen_res.error =
           "Missing required parameters: host, user, port, name, password, and dialect"
    /\ connected(dbf)

\* The commands the command table marks as requiring a connection.
MarkedConnected ==
    {"get_db_info", "get_db_tables", "get_db_table", "get_gen_packets",
     "get_gen_packet", "get_pref_spec", "run_sql_query", "set_db_insert",
     "set_db_export", "get_pref_rows"}

\* C16: each command marked as requiring a connection is rejected with
\* 'Request requires connection to a database.' and no state change when the
\* session has no database id, and passes the connection check when it has.
C16_ConnectionRequired ==
    [][ (ReadsLine /\ line'.type = "request" /\ line'.req.kind \in MarkedConnected) =>
          IF ~connected(dbf)
          THEN /\ listen_res'.status = "error"
               /\ listen_res'.error = NotConnected
               /\ Untouched
          ELSE server_pc' = "idle" => listen_res'.error # NotConnected
      ]_vars

\* ------------------------------------------------------ the dependency sorter
\* The set of tables the caller asked to be sorted: the argument when one is
\* given, every table of the database otherwise.
AskedTables == IF tables.given THEN tables.names ELSE inspector.names

Position(t) == CHOOSE k \in 1..Len(sorted_tables) : sorted_tables[k] = t

IsPermutationOf(T) ==
    /\ Len(sorted_tables) = Cardinality(T)
    /\ {sorted_tables[k] : k \in 1..Len(sorted_tables)} = T

ParentsFirst ==
    \A e \in graph.edges :
        /\ e[1] \in {sorted_tables[k] : k \in 1..Len(sorted_tables)}
        /\ e[2] \in {sorted_tables[k] : k \in 1..Len(sorted_tables)}
        /\ Position(e[1]) < Position(e[2])

\* C17: for every set of tables T and every foreign-key graph over it,
\* sort_tables comes to an end (inside the loop there is always a cycle to
\* break or an order to return) and what it returns is a permutation of T in
\* which the parent of every remaining edge precedes the child.
C17_SortedPermutation ==
    /\ sort_pc = "loop" =>
          (find_cycle(graph) # {} \/ topological_sort(graph) # {})
    /\ sort_pc = "sorted" => (IsPermutationOf(AskedTables) /\ ParentsFirst)

\* The same for a set of tables that is not empty.
C17_SortedPermutationOfNonEmpty ==
    /\ sort_pc = "loop" =>
          (find_cycle(graph) # {} \/ topological_sort(graph) # {})
    /\ (sort_pc = "sorted" /\ AskedTables # {}) =>
          (IsPermutationOf(AskedTables) /\ ParentsFirst)

EdgesOf(cyc) == {cyc[k] : k \in 1..Len(cyc)}

IsCycleOf(cyc, g) ==
    /\ Len(cyc) >= 1
    /\ EdgesOf(cyc) \subseteq g.edges
    /\ \A k \in 1..Len(cyc) : cyc[k][2] = cyc[Next1(k, Len(cyc))][1]

\* The score the table of section 4.2 gives a foreign key of one column.
TableScore(col) ==
    IF col.nullable /\ col.default THEN 0
    ELSE IF col.nullable THEN 1
    ELSE IF col.default THEN 2
    ELSE Inf

ScoresFollowTable ==
    \A e \in graph.edges :
        Len(inspector.fks[<<e[2], e[1]>>]) = 1 =>
            graph.score[e] = TableScore(inspector.fks[<<e[2], e[1]>>][1])

\* Tables A (nullable foreign key to B, no default) and B (foreign key to A,
\* neither nullable nor with a default), sorted on their own.
ExampleAB ==
    /\ sort_pc # "idle"
    /\ tables = [given |-> TRUE, names |-> {"A", "B"}]
    /\ inspector.fks[<<"A", "B">>] = <<Column(TRUE, FALSE)>>
    /\ inspector.fks[<<"B", "A">>] = <<Column(FALSE, FALSE)>>
    /\ inspector.fks[<<"A", "A">>] = NoFk
    /\ inspector.fks[<<"B", "B">>] = NoFk

\* C18: an iteration of cycle-breaking removes exactly one edge, that edge
\* lies on the cycle found, and its score (0 nullable and default, 1 nullable,
\* 2 default only, +infinity neither, from the child's foreign-key column) is
\* the least among the edges of that cycle; for the tables A and B of the
\* example the edge of score 1 is removed and the order is A, B.
C18_BreaksMinimalCycleEdge ==
    /\ [][(sort_pc = "loop" /\ graph' # graph) =>
            /\ IsCycleOf(cycles', graph)
            /\ min_edge' \in EdgesOf(cycles')
            /\ graph'.edges = graph.edges \ {min_edge'}
            /\ Cardinality(graph'.edges) = Cardinality(graph.edges) - 1
            /\ graph'.nodes = graph.nodes
            /\ \A e \in EdgesOf(cycles') : graph.score[min_edge'] <= graph.score[e]
            /\ ScoresFollowTable
            /\ ExampleAB => (min_edge' = <<"B", "A">> /\ graph.score[min_edge'] = 1)]_vars
    /\ []((ExampleAB /\ sort_pc = "sorted") => sorted_tables = <<"A", "B">>)

C18_Witness ==
    /\ ExampleAB
    /\ sort_pc = "sorted"
    /\ min_edge = <<"B", "A">>
    /\ sorted_tables = <<"A", "B">>

\* ------------------------------------------------------ the fill order
Place(k) == CHOOSE j \in 1..Len(sorted_specs) : sorted_specs[j] = k

Accepted == {sorted_specs[j] : j \in 1..Len(sorted_specs)}

\* C19: the accepted columns are run in this order: the ordinary columns in
\* input order, then the python columns by ascending order(N) hint, equal
\* hints in input order; so a python column of smaller hint always runs
\* before one of larger hint.
C19_PythonByAscendingHint ==
    \A x, y \in Accepted :
        LET X == specs[x]
            Y == specs[y]
        IN /\ (X.type # "python" /\ Y.type = "python") => Place(x) < Place(y)
           /\ (X.type # "python" /\ Y.type # "python" /\ x < y) => Place(x) < Place(y)
           /\ (X.type = "python" /\ Y.type = "python" /\ X.order < Y.order)
                 => Place(x) < Place(y)
           /\ (X.type = "python" /\ Y.type = "python" /\ X.order = Y.order /\ x < y)
                 => Place(x) < Place(y)

\* ------------------------------------------------------ the retry budget
\* The columns that have an ErrorPacket.
Reported == {errors[k].column : k \in 1..Len(errors)}

PacketsOf(c) == {k \in 1..Len(errors) : errors[k].column = c}

\* The step in which the tenth candidate of a row is refused.
BudgetExhausted == Pull /\ tries = RetryBudget - 1 /\ i' = i

\* C20: when the tenth candidate in a row for a column fails is_valid, the
\* column and its generator leave the run, exactly one ErrorPacket for the
\* column is appended (warning for a nullable column, error otherwise), its
\* entry for that row and every later row stays NULL, and the packet is still
\* returned; no column is pulled more than RetryBudget times for one row.
C20_BudgetExhaustedDropsColumn ==
    /\ [][BudgetExhausted =>
            LET c == ordered_columns[i + 1]
            IN /\ c \notin Range(ordered_columns')
               /\ c \notin Range(gen_fns')
               /\ errors' = Append(errors,
                     ErrorPacket(c, IF c \in table.nullable THEN "warning" ELSE "error",
                                 "no valid value"))
               /\ Cardinality({k \in 1..Len(errors') : errors'[k].column = c}) = 1
               /\ \A k \in (entry_index + 1)..no_of_entries : entries'[c][k] = NULL]_vars
    /\ [][\A c \in Reported :
            /\ c \notin Range(gen_fns') /\ c \notin Range(ordered_columns')
            /\ entries'[c] = entries[c]
            /\ Cardinality({k \in 1..Len(errors') : errors'[k].column = c}) = 1]_vars
    /\ [][Pull => /\ tries < RetryBudget
                  /\ \/ tries' = tries + 1 /\ i' = i /\ gen_fns' = gen_fns
                     \/ tries' = 0 /\ i' = i + 1 /\ gen_fns' = gen_fns
                     \/ tries' = 0 /\ i' = i /\ Len(gen_fns') = Len(gen_fns) - 1]_vars
    /\ [](tries < RetryBudget)
    /\ []((fill_pc = "done" /\ errors # <<>>) =>
            /\ fill_packet.errors = errors \o check_errors
            /\ fill_packet.total_entries = no_of_entries
            /\ \A c \in Reported : \A k \in 1..no_of_entries :
                  entries[c][k] = NULL \/ k <= entry_index)

\* A returned packet of two rows whose unique nullable column used up its
\* budget in the second row: one warning, the first row filled, the second NULL.
C20_Witness ==
    /\ fill_pc = "done"
    /\ no_of_entries = 2
    /\ \E c \in Columns :
          /\ c \in table.nullable
          /\ errors = <<ErrorPacket(c, "warning", "no valid value")>>
          /\ entries[c][1] # NULL
          /\ entries[c][2] = NULL
          /\ c \notin Range(ordered_columns)
          /\ job_cache # <<>>
    /\ fill_packet.total_entries = 2

\* ------------------------------------------------------ failures of one column
\* The columns whose spec failed its check.
Rejected == {check_errors[k].column : k \in 1..Len(check_errors)}

Attached == {fill_packet.errors[k].column : k \in 1..Len(fill_packet.errors)}

\* The step in which the stream of the column at hand raises.
StreamFailed ==
    /\ InRow
    /\ Len(errors') = Len(errors) + 1
    /\ errors'[Len(errors')].msg = "stream"

\* C21: a column whose generator fails its check, or whose stream raises, does
\* not fail the batch: the packet is returned with an ErrorPacket naming the
\* column, the column gets no further value, and the other columns of the run
\* go on as if it were not there and are filled in every row.
C21_ColumnFailureIsLocal ==
    /\ [](fill_pc \in {"idle", "loop", "done"})
    /\ [][StreamFailed =>
            /\ errors'[Len(errors')].column = ordered_columns[i + 1]
            /\ errors'[Len(errors')].type \in {"error", "warning"}
            /\ gen_fns' = RemoveAt(gen_fns, i + 1)
            /\ ordered_columns' = RemoveAt(ordered_columns, i + 1)
            /\ UNCHANGED <<entries, filled, job_cache, i, entry_index, row_idx, fill_pc>>]_vars
    /\ [][\A c \in Reported \cup Rejected :
            /\ c \notin Range(gen_fns') /\ entries'[c] = entries[c]]_vars
    /\ [](fill_pc = "loop" => Len(gen_fns) = Len(ordered_columns))
    /\ [](fill_pc = "done" =>
            /\ Reported \cup Rejected \subseteq Attached
            /\ \A c \in Rejected : \A k \in DOMAIN entries[c] : entries[c][k] = NULL
            /\ \A c \in Range(ordered_columns) : \A k \in 1..no_of_entries :
                  /\ entries[c][k] # NULL
                  /\ Cell(k, c) = entries[c][k])

\* A returned packet of two rows: one spec was rejected beforehand, one
\* stream raised in the second row, the third column is filled throughout.
C21_Witness ==
    /\ fill_pc = "done"
    /\ no_of_entries = 2
    /\ \E c \in Columns, r \in Columns :
          /\ c # r
          /\ Rejected = {r}
          /\ errors = <<ErrorPacket(c, "error", "stream")>>
          /\ entries[c][1] # NULL
          /\ entries[c][2] = NULL
          /\ Len(ordered_columns) = 1
          /\ Attached = {c, r}

\* ------------------------------------------------------ the shape of the packet
\* The columns that never were in the run and were not rejected: those of type
\* autoincrement, computed or null, or without generator.
NeverRun == Columns \ (Range(ordered_columns) \cup Reported \cup Rejected)

\* C22: the packet build_packets returns has the spec's columns in spec order
\* and exactly no_of_entries rows, each as long as the column list, with
\* total_entries = no_of_entries; a column that is not generated is NULL in
\* every row.
C22_PacketShape ==
    fill_pc = "done" =>
        /\ fill_packet.columns = SpecColumns
        /\ Len(fill_packet.entries) = no_of_entries
        /\ fill_packet.total_entries = no_of_entries
        /\ \A k \in PacketRows : Len(fill_packet.entries[k]) = Len(fill_packet.columns)
        /\ \A c \in NeverRun : \A k \in PacketRows : Cell(k, c) = NULL

\* C23: when no column spec has a generator, so that no column is accepted
\* into the run and none is rejected, the packet has no entries.
C23_NoGeneratorNoEntries ==
    (fill_pc = "done" /\ ordered_columns = <<>> /\ errors = <<>> /\ check_errors = <<>>) =>
        (fill_packet.entries = <<>> /\ fill_packet.total_entries = 0)

\* ------------------------------------------------------ foreign-key columns
\* The non-null values the referenced column of c holds, as the packet writes
\* them (every generated value is a str).
Referenced(c) ==
    {ToStr(v) : v \in get_existing_values(table.foreign_keys[c][1], table.foreign_keys[c][2])}

HasReference == {c \in table.foreign : table.foreign_keys[c] # NoRef}

C25_GetReturnsLastSaved ==
    /\ pref_op.op = "get" =>
          pref_op.ret = last_saved[<<pref_op.db_id, pref_op.name>>]
    /\ \A key \in SpecKeys :
          Cardinality(spec_rows(table_specs, key[1], key[2])) <= 1

\* C25 without the page size: what get_pref_spec does return.
C25_AllButPageSize ==
    /\ pref_op.op = "get" =>
          /\ pref_op.ret.page_size \in {0, DefaultPageSize}
          /\ [pref_op.ret EXCEPT !.page_size = 0]
               = [last_saved[<<pref_op.db_id, pref_op.name>>] EXCEPT !.page_size = 0]
    /\ \A key \in SpecKeys :
          Cardinality(spec_rows(table_specs, key[1], key[2])) <= 1

\* --------------------------------------------------------- get_db_tables
\* C28: get_db_tables answers only after both workers have finished; an ok
\* response lists every table of the database exactly once, in the sorter's
\* order, each with the rows and parents the other worker computed; if
\* either worker failed the response is an error.
C28_BothWorkersOrError ==
    tables_pc = "answered" =>
        /\ t1 # "running"
        /\ t2 # "running"
        /\ IF t1 = "failed" \/ t2 = "failed"
           THEN tables_resp.status = "error"
           ELSE /\ tables_resp.status = "ok"
                /\ LET listed == tables_resp.payload.tables
                   IN /\ [k \in DOMAIN listed |-> listed[k].name]
                            = table_info.sorted_tables
                      /\ table_info.sorted_tables \in Orders(DOMAIN schema)
                      /\ \A k \in DOMAIN listed :
                            /\ listed[k].rows = schema[listed[k].name].rows
                            /\ listed[k].parents = schema[listed[k].name].parents

\* C28 for the runs in which the sorter returned a list that is not empty.
C28_SorterListsTables ==
    (t2 = "failed" \/ schema = <<>>) \/ C28_BothWorkersOrError

\* --------------------------------------------------------- run_sql_query
\* C29: run_sql_query answers within the timeout plus one poll interval; a
\* worker that has not exited when the timeout has passed is terminated and
\* the one line 'ERROR 408 (HYT00): Query timed out after 10.00 sec' is the
\* answer; no query holds the handler longer.
C29_AnswersWithinTimeout ==
    /\ clock - sql_start <= Deadline + 1
    /\ sql_pc \in {"check", "sleep"} => clock - sql_start <= Deadline
    /\ (sql_pc = "answered" /\ worker # "none" /\ clock - sql_start >= Deadline) =>
          /\ sql_resp = Lines(TimedOut)
          /\ ~is_alive(worker)
    /\ (sql_pc = "answered" /\ worker # "none" /\ clock - sql_start < Deadline) =>
          /\ worker = "exited"
          /\ sql_resp # Lines(TimedOut)
    /\ worker = "terminated" => sql_resp = Lines(TimedOut)

\* A worker still alive at the deadline, terminated and answered for.
C29_Witness ==
    /\ sql_pc = "answered"
    /\ worker = "terminated"
    /\ sql_resp = Lines(TimedOut)
    /\ clock - sql_start = Deadline


\* ------------------------------------------------------ the packet cache
\* C26: each generation whose result poll_gen_status delivers (status done)
\* replaces the packet cache as a whole: afterwards get_gen_packet with the
\* delivered packet's id and page 0 succeeds and no id delivered earlier is
\* retrievable; so for every result, one with zero rows included.
C26_DeliveryReplacesCache ==
    [][ uuid_ctr' = uuid_ctr + 1 =>
          /\ resp'.cmd = "poll_gen_status"
          /\ resp'.payload.status = "done"
          /\ get_packet_page_ok(cached_packets', resp'.payload.data.id, 0)
          /\ \A id \in 1..uuid_ctr : ~get_packet_page_ok(cached_packets', id, 0)
      ]_vars

\* C26 for the results that hold at least one row.
C26_ResultsWithRows ==
    [][ (uuid_ctr' = uuid_ctr + 1 /\ resp'.payload.data.total_entries > 0) =>
          /\ resp'.cmd = "poll_gen_status"
          /\ resp'.payload.status = "done"
          /\ get_packet_page_ok(cached_packets', resp'.payload.data.id, 0)
          /\ \A id \in 1..uuid_ctr : ~get_packet_page_ok(cached_packets', id, 0)
      ]_vars

\* What C27 says of one get_packet_page(id, page) call.
PageRead(op, cache, cache_after) ==
    LET fails == \/ cache = <<>>
                 \/ cache[1].id # op.id
                 \/ op.page # NoPage /\ op.page \notin 0..(Len(cache) - 1)
    IN IF fails THEN ~op.ok /\ cache_after = cache
       ELSE /\ op.ok
            /\ op.page # NoPage =>
                  /\ op.ret.page = op.page
                  /\ op.ret = cache[op.page + 1]

\* C27: get_packet_page fails and leaves the cache unchanged when nothing has
\* been cached, when packet_id is not the id of the cached packet, or when
\* page is not an index of a cached page (outside 0 .. total_pages-1);
\* otherwise get_packet_page(id, p) returns exactly the page whose page field
\* is p.
C27_BadReadsFail ==
    [][ page_op'.op = "get" => PageRead(page_op', cached_packets, cached_packets') ]_vars

\* C27 for the page numbers that are not negative.
C27_PagesFromZero ==
    [][ (page_op'.op = "get" /\ (page_op'.page >= 0 \/ page_op'.page = NoPage)) =>
            PageRead(page_op', cached_packets, cached_packets') ]_vars

\* ----------------------------------------------------------- set_db_connect
\* C30: set_db_connect saves a credential only if it was not saved already
\* and only after its connection test succeeded; when the test fails the
\* response is an error, the saved credentials are as they were and the
\* session is disconnected, so that the commands that need a connection are
\* rejected.
C30_ConnectSavesAfterTest ==
    [][ /\ (resp'.cmd = "set_db_connect" /\ resp'.status = "error") =>
              /\ dbf'.saved = dbf.saved
              /\ ~connected(dbf')
              /\ \A kind \in NeedsConnection :
                    requires(kind, Range(RequiredKeys(kind)), dbf') = "connection"
        /\ (resp'.cmd = "set_db_connect" /\ resp'.status = "ok") =>
              /\ connected(dbf')
              /\ dbf'.saved = dbf.saved \cup {dbf'.id}
        /\ ~(dbf'.saved \subseteq dbf.saved) =>
              /\ resp'.cmd = "set_db_connect"
              /\ resp'.status = "ok"
              /\ dbf'.saved \ dbf.saved = {dbf'.id}
      ]_vars

\* A connect that failed its test in a session that has one saved
\* credential: nothing new saved, the session disconnected.
C30_Witness ==
    /\ resp.cmd = "set_db_connect"
    /\ resp.status = "error"
    /\ ~connected(dbf)
    /\ dbf.saved = {1}


\* ------------------------------------------------- reading the whole packet
\* C31: get_packet_page(id, NULL) is read-only on the cache: it returns the
\* packet at full length and leaves every cached page (entries, page index,
\* totals) as it was, so that page 0 afterwards still holds at most page_size
\* rows and a second get_packet_page(id, NULL) returns the same entries.
C31_WholeReadLeavesCache ==
    [][ (page_op'.op = "get" /\ page_op'.page = NoPage /\ page_op'.ok) =>
            /\ cached_packets' = cached_packets
            /\ Len(page_op'.ret.entries) = page_op'.ret.total_entries
            /\ \A k \in DOMAIN cached_packets' :
                  Len(cached_packets'[k].entries) <= cached_packets'[k].page_size
            /\ get_packet_page_ret(cached_packets', page_op'.id, NoPage).entries
                  = page_op'.ret.entries
      ]_vars

\* C31 for a packet cached as one page.
C31_OnePage ==
    [][ (page_op'.op = "get" /\ page_op'.page = NoPage /\ page_op'.ok
         /\ Len(cached_packets) = 1) =>
            /\ cached_packets' = cached_packets
            /\ Len(page_op'.ret.entries) = page_op'.ret.total_entries
            /\ get_packet_page_ret(cached_packets', page_op'.id, NoPage).entries
                  = page_op'.ret.entries
      ]_vars


\* ------------------------------------------------ polling a finishing job
NoResult == "No result. Process may not have started or crashed."

\* C32: under every interleaving of the generation child with the poll
\* handler, poll_gen_status with the current job id never answers 'No result.
\* Process may not have started or crashed.' for a job whose child has put a
\* result on the queue, also when the child puts and exits between the
\* handler's test of the queue and its test of the process.
C32_PollNeverLosesResult ==
    [][ (server_pc = "poll" /\ server_pc' = "idle" /\ result_queue # <<>>) =>
            resp'.error # NoResult
      ]_vars


\* A poll answered done.
AnsweredDone(r) ==
    r.cmd = "poll_gen_status" /\ r.status = "ok" /\ r.payload.status = "done"

\* C33: once poll_gen_status has answered done for a job, a later
\* poll_gen_status with the same job id (no new job started) also answers
\* done with the same first page, not an error.
C33_DoneStaysDone ==
    [][ (/\ AnsweredDone(resp)
         /\ resp'.cmd = "poll_gen_status"
         /\ resp'.error # "Invalid job."
         /\ generation_id' = generation_id) =>
            resp' = resp
      ]_vars


\* ------------------------------------------------------ stored passwords
\* C34: no response payload holds the password of a saved credential: two
\* servers that differ only in the passwords stored answer get_pref_connections,
\* get_db_info, get_db_last_connected, set_db_connect and set_db_reconnect
\* identically.
C34_ResponsesHidePasswords ==
    cred_resp[1] = cred_resp[2]

\* C34 for the commands other than get_db_last_connected.
C34_OtherCommands ==
    cred_resp[1].cmd # "get_db_last_connected" => cred_resp[1] = cred_resp[2]


\* ------------------------------------------------ generators and columns
\* C38: throughout the fill loop the live generators and the run columns stay
\* index-aligned (same length, generator i made for column i), also after
\* columns were dropped; a value accepted from a generator is written only
\* into that generator's column at the current row, and the ErrorPacket of a
\* drop names the column that was dropped.
C38_GeneratorsAligned ==
    [][ /\ gen_fns' = ordered_columns'
        /\ (fill_pc = "loop" /\ i' = i + 1) =>
              /\ entries'[gen_fns[i + 1]][entry_index + 1] # NULL
              /\ \A c \in Columns : \A k \in DOMAIN entries[c] :
                    (c # gen_fns[i + 1] \/ k # entry_index + 1) =>
                        entries'[c][k] = entries[c][k]
        /\ (fill_pc = "loop" /\ Len(errors') = Len(errors) + 1) =>
              /\ errors'[Len(errors')].column = gen_fns[i + 1]
              /\ gen_fns' = RemoveAt(gen_fns, i + 1)
              /\ ordered_columns' = RemoveAt(ordered_columns, i + 1)
      ]_vars

\* Two rows filled by the one column left after two others were dropped, the
\* second of them in the second row.
C38_Witness ==
    /\ fill_pc = "done"
    /\ no_of_entries = 2
    /\ Len(errors) = 2
    /\ Len(ordered_columns) = 1
    /\ gen_fns = ordered_columns
    /\ entries[ordered_columns[1]][2] # NULL
    /\ \E c \in Columns \ Range(ordered_columns) : entries[c][1] # NULL


\* ------------------------------------------------ the fill loop terminates
\* C40: build_table_entries terminates: each step of the inner loop accepts a
\* value and moves to the next generator, or removes a generator, after at most
\* 10 pulls from it; the row index advances by exactly one per row, from 0 to
\* no_of_entries - 1, and the call returns.
C40_FillTerminates ==
    /\ [](tries < RetryBudget /\ row_idx = entry_index /\ row_idx <= no_of_entries)
    /\ [][ fill_pc = "loop" =>
             \/ i' = i + 1 /\ gen_fns' = gen_fns /\ row_idx' = row_idx
             \/ Len(gen_fns') = Len(gen_fns) - 1 /\ i' = i /\ row_idx' = row_idx
             \/ tries' = tries + 1 /\ i' = i /\ gen_fns' = gen_fns /\ row_idx' = row_idx
             \/ i >= Len(gen_fns) /\ i' = 0 /\ row_idx' = row_idx + 1 /\ gen_fns' = gen_fns
             \/ row_idx = no_of_entries /\ fill_pc' = "done"
       ]_vars
    /\ <>(fill_pc = "done")

\* A run that returned after two rows, one column dropped on its tenth
\* invalid value and another filled in both rows.
C40_Witness ==
    /\ fill_pc = "done"
    /\ no_of_entries = 2
    /\ row_idx = 2
    /\ \E k \in DOMAIN errors : errors[k].msg = "no valid value"
    /\ \E c \in Range(ordered_columns) : entries[c][1] # NULL /\ entries[c][2] # NULL


\* ------------------------------------------------ the job cache
\* C35: throughout a generation job the cache entry under key
\* '<table>.<column>' is the set of existing values of exactly that column of
\* that table, whichever check created it.
C35_CacheHoldsItsColumn ==
    \A key \in DOMAIN job_cache :
        job_cache[key].vals = get_existing_values(key[1], key[2])

\* The entry of the column being checked for uniqueness is that column's.
C35_OwnKeyHoldsItsColumn ==
    \A key \in DOMAIN job_cache :
        (key[2] \in table.unique /\ table.multi_unique[key[2]] = NoGroup) =>
            job_cache[key].vals = get_existing_values(key[1], key[2])


\* ------------------------------------------------ disconnect first
\* C37: set_db_connect, set_db_reconnect and set_pref_delete disconnect the
\* current session before anything else: whatever their outcome, the pending
\* writes of the previous connection are rolled back (no transaction, no
\* pending rows, nothing of them persisted) and the uncommitted counter is 0
\* when the response is returned; a failed command leaves no session.
DisconnectFirstCmds == {"set_db_connect", "set_db_reconnect", "set_pref_delete"}

C37_DisconnectFirst ==
    [][ resp'.cmd \in DisconnectFirstCmds =>
            /\ ~dbf'.txn
            /\ dbf'.tx_rows = 0
            /\ dbf'.uncommitted = 0
            /\ dbf'.db_rows = dbf.db_rows
            /\ resp'.status = "error" => ~connected(dbf')
      ]_vars

\* A reconnect to an unknown database, and a deletion, that have just
\* discarded the rows inserted over the previous connection.
C37_Witness ==
    /\ resp.cmd \in {"set_db_reconnect", "set_pref_delete"}
    /\ resp.cmd = "set_db_reconnect" => resp.error = "Unknown database."
    /\ dbf.discarded > 0
    /\ ~dbf.txn
    /\ dbf.uncommitted = 0


\* ------------------------------------------------ completed queries
\* C39: run_sql_query returns the worker's output whenever the worker put it
\* on the result queue before the deadline, whatever its size: a completed
\* query is never answered with the timeout line or an empty result.
C39_CompletedQueryIsAnswered ==
    (sql_pc = "answered" /\ sql_put # <<>> /\ sql_put[1].at < Deadline) =>
        sql_resp = Lines(sql_put[1].output)

\* An output that fits the pipe and was put a poll interval or more before
\* the last test is returned, if the worker has exited.
C39_SmallAndEarlyIsAnswered ==
    (/\ sql_pc = "answered"
     /\ sql_put # <<>>
     /\ worker = "exited"
     /\ clock - sql_start < Deadline) =>
        sql_resp = Lines(sql_put[1].output)


\* ------------------------------------------------ the spec is saved first
\* C36: the generation child saves the TableSpec before it puts the packet,
\* and only when build_packets returned: whenever poll_gen_status answers
\* done, get_pref_spec for the job's (db_id, table) returns the job's spec; a
\* job that fails with an exception leaves the saved specs as they were.
C36_DoneMeansSaved ==
    /\ gen_poll = "done" =>
          get_spec(table_specs, gen_spec.db_id, gen_spec.name) = gen_spec
    /\ gen_poll = "error" => table_specs = gen_before

\* The order alone: a packet is put or delivered only after the row of the
\* job's spec was stored (all of it but page_size), and an exception only
\* with the rows untouched.
C36_SavedBeforePut ==
    /\ (gen_poll = "done" \/ gen_queue = <<"packet">>) =>
          get_spec(table_specs, gen_spec.db_id, gen_spec.name)
              = [gen_spec EXCEPT !.page_size = DefaultPageSize]
    /\ (gen_poll = "error" \/ gen_queue = <<"exception">>) => table_specs = gen_before

====
